---- MODULE Spec2Model ----
(***************************************************************************)
(* Auction lifecycle and bidding engine of the auction bot:                *)
(* AuctionService and AuctionScheduler (services.py) over the SQLite       *)
(* repositories (repositories.py) and the Auction entity (domain.py).      *)
(*                                                                         *)
(* Every service method is a coroutine; each awaited repository call is    *)
(* one atomic step on the store, and the local computation that follows an *)
(* await belongs to the same step.  Calls in flight are held in call       *)
(* slots; the scheduler loop is a process of its own.  Time is counted in  *)
(* minutes.                                                                *)
(***************************************************************************)
EXTENDS Integers, Sequences, FiniteSets, TLC

VARIABLES
    now,        \* datetime.now(), in minutes
    users,      \* table users: user_id -> row
    auctions,   \* tables auctions, bids, auction_participants: auction_id -> row
    rows,       \* auction ids in insertion (rowid) order
    nextId,     \* next fresh auction id (uuid4)
    calls,      \* the service calls in flight, one per slot
    sched,      \* the AuctionScheduler loop
    ret,        \* the outcome of the step just taken, if it returned or raised
    bid_contexts,   \* BaseHandlers.bid_contexts: user_id -> auction id
    conversations   \* the state of the bidding conversation of each user

vars == <<now, users, auctions, rows, nextId, calls, sched, ret,
          bid_contexts, conversations>>

----------------------------------------------------------------------------
(* Bounds *)

MaxAuctions == 2      \* auction ids are 1..MaxAuctions
MaxAmount == 3        \* prices and bid amounts are 1..MaxAmount
MaxBids == 2          \* bids per auction
MaxHour == 1          \* the clock stops after this many hours
MaxMinute == 1        \* minutes of each hour that the clock visits

(* Program constants *)

MinutesPerHour == 60  \* timedelta(hours=1)
QueueDelay == 1       \* timedelta(minutes=1)
MinDuration == 1      \* Auction.__post_init__: minimum duration in hours

None == -1            \* Python None for an optional datetime

Procs == {1, 2}
AuctionIds == 1..MaxAuctions
UserIds == 1..4
\* ADMIN_IDS of the environment
AdminIds == {1}
Amounts == 1..MaxAmount
StartPrices == {1}
Durations == {1}
TickSteps == {QueueDelay, MinutesPerHour}

\* Python None for an optional text
NoText == ""
\* the title that the creation conversation was given
FirstTitle == "lot"
\* the texts typed for a new title or description
Texts == {"lot", "new"}

----------------------------------------------------------------------------
(* domain.py *)

\* Auction.__post_init__: minimum duration
PostInitDuration(d) == IF d < MinDuration THEN MinDuration ELSE d

\* Auction.__post_init__: an active auction without end_time gets one
PostInitEndTime(status, end_time, created_at, d) ==
    IF status = "active" /\ end_time = None
    THEN created_at + MinutesPerHour * PostInitDuration(d)
    ELSE end_time

\* is_active without the end_time comparison
is_active_StatusOnly(a, t) ==
    a.status = "active" /\ a.end_time # None

\* Auction.is_active
is_active(a, t) ==
    a.status = "active" /\ a.end_time # None /\ t < a.end_time

----------------------------------------------------------------------------
(* repositories.py *)

\* an auction id without a row in the auctions table
NoRow == [status |-> "absent", title |-> NoText, description |-> NoText,
          start_price |-> 0, current_price |-> 0,
          duration_hours |-> 0, end_time |-> None, created_at |-> 0,
          participants |-> <<>>, bids |-> <<>>]

\* get_auction returns None
NoAuction == [NoRow EXCEPT !.participants = {}]

NoBid == [user_id |-> 0, amount |-> 0, timestamp |-> 0]

\* ORDER BY timestamp: rows with equal keys stay in rowid order
InsertByTimestamp(s, b) ==
    LET k == Cardinality({i \in 1..Len(s) : s[i].timestamp <= b.timestamp})
    IN  SubSeq(s, 1, k) \o <<b>> \o SubSeq(s, k + 1, Len(s))

RECURSIVE OrderByTimestamp(_)
OrderByTimestamp(bs) ==
    IF bs = <<>> THEN <<>>
    ELSE InsertByTimestamp(OrderByTimestamp(SubSeq(bs, 1, Len(bs) - 1)), bs[Len(bs)])

\* SQLiteAuctionRepository.get_auction_bids
get_auction_bids(id) == OrderByTimestamp(auctions[id].bids)

\* get_auction: current_leader = bids[-1] if bids else None
current_leader(id) ==
    LET bs == get_auction_bids(id)
    IN  IF bs = <<>> THEN NoBid ELSE bs[Len(bs)]

\* get_auction: participants = set() of the auction_participants rows
Participants(id) == {auctions[id].participants[i] : i \in 1..Len(auctions[id].participants)}

\* SQLiteAuctionRepository.get_auction
get_auction(id) ==
    LET r == auctions[id]
    IN  IF r.status = "absent" THEN NoAuction
        ELSE [r EXCEPT !.duration_hours = PostInitDuration(r.duration_hours),
                       !.end_time = PostInitEndTime(r.status, r.end_time,
                                                    r.created_at, r.duration_hours),
                       !.participants = Participants(id),
                       !.bids = get_auction_bids(id)]

\* ORDER BY created_at over the auctions table
InsertByCreatedAt(s, id) ==
    LET k == Cardinality({i \in 1..Len(s) :
                            auctions[s[i]].created_at <= auctions[id].created_at})
    IN  SubSeq(s, 1, k) \o <<id>> \o SubSeq(s, k + 1, Len(s))

RECURSIVE OrderByCreatedAt(_)
OrderByCreatedAt(ids) ==
    IF ids = <<>> THEN <<>>
    ELSE InsertByCreatedAt(OrderByCreatedAt(SubSeq(ids, 1, Len(ids) - 1)), ids[Len(ids)])

WithStatus(st) == SelectSeq(rows, LAMBDA id : auctions[id].status = st)

\* SQLiteAuctionRepository.get_active_auctions
get_active_auctions == OrderByCreatedAt(WithStatus("active"))

\* SQLiteAuctionRepository.get_scheduled_auctions
get_scheduled_auctions == OrderByCreatedAt(WithStatus("scheduled"))

\* SQLiteUserRepository.get_user; an unregistered id has registered = FALSE
get_user(u) == users[u]

\* SQLiteAuctionRepository.create_auction
create_auction_row(id, a) ==
    /\ auctions' = [auctions EXCEPT ![id] = a]
    /\ rows' = Append(rows, id)

\* update_auction_status that also resets end_time
update_auction_status_ClearEndTime(id, st) ==
    auctions' = [auctions EXCEPT ![id] =
                    IF @.status = "absent" THEN @
                    ELSE [@ EXCEPT !.status = st, !.end_time = None]]

\* SQLiteAuctionRepository.update_auction_status: UPDATE ... WHERE auction_id
update_auction_status(id, st) ==
    auctions' = [auctions EXCEPT ![id] =
                    IF @.status = "absent" THEN @ ELSE [@ EXCEPT !.status = st]]

\* add_participant as a plain INSERT
add_participant_PlainInsert(id, u) ==
    auctions' = [auctions EXCEPT ![id].participants = Append(@, u)]

\* SQLiteAuctionRepository.add_participant: INSERT OR IGNORE on the primary key
add_participant(id, u) ==
    auctions' = [auctions EXCEPT ![id].participants =
                    IF u \in Participants(id) THEN @ ELSE Append(@, u)]

\* add_bid without the UPDATE of current_price
add_bid_InsertOnly(id, b) ==
    auctions' = [auctions EXCEPT ![id].bids = Append(@, b)]

\* SQLiteAuctionRepository.add_bid: INSERT the bid, UPDATE current_price
add_bid(id, b) ==
    auctions' = [auctions EXCEPT ![id].bids = Append(@, b),
                                 ![id].current_price = b.amount]

\* AuctionRepository.update_auction_status_and_end_time
update_auction_status_and_end_time(id, st, et) ==
    auctions' = [auctions EXCEPT ![id] =
                    IF @.status = "absent" THEN @
                    ELSE [@ EXCEPT !.status = st, !.end_time = et]]

\* AuctionRepository.update_auction_price
update_auction_price(id, p) ==
    auctions' = [auctions EXCEPT ![id] =
                    IF @.status = "absent" THEN @
                    ELSE [@ EXCEPT !.start_price = p, !.current_price = p]]

\* AuctionRepository.update_auction_title
update_auction_title(id, t) ==
    auctions' = [auctions EXCEPT ![id] =
                    IF @.status = "absent" THEN @ ELSE [@ EXCEPT !.title = t]]

\* AuctionRepository.update_auction_description
update_auction_description(id, d) ==
    auctions' = [auctions EXCEPT ![id] =
                    IF @.status = "absent" THEN @ ELSE [@ EXCEPT !.description = d]]

\* SQLiteUserRepository.update_user_status
update_user_status(u, blocked) ==
    users' = [users EXCEPT ![u].is_blocked = blocked]

\* SQLiteUserRepository.get_user_by_username: the ids of the rows with this
\* username (SELECT * FROM users WHERE username = ?)
get_user_by_username(name) ==
    {u \in DOMAIN users : users[u].registered /\ users[u].username = name}

\* create_user on a table without UNIQUE on username
create_user_NoUnique(u, name, admin) ==
    users' = IF users[u].registered
             THEN users
             ELSE [users EXCEPT ![u] = [registered |-> TRUE, username |-> name,
                                        is_admin |-> admin, is_blocked |-> FALSE]]

\* SQLiteUserRepository.create_user: INSERT INTO users; user_id is the
\* PRIMARY KEY and username is UNIQUE, an IntegrityError leaves the table as
\* it was
create_user(u, name, admin) ==
    users' = IF users[u].registered \/ get_user_by_username(name) # {}
             THEN users
             ELSE [users EXCEPT ![u] = [registered |-> TRUE, username |-> name,
                                        is_admin |-> admin, is_blocked |-> FALSE]]

----------------------------------------------------------------------------
(* Call slots *)

\* no username: the id has no row in users
NoName == ""

Idle == [op |-> "none", pc |-> "idle", aid |-> 0, uid |-> 0, amount |-> 0,
         dur |-> 0, status |-> "none", end_time |-> None, created_at |-> 0,
         price |-> 0, joined |-> FALSE, ts |-> 0, username |-> NoName,
         target |-> 0, blocking |-> FALSE, previous_leader |-> 0]

Off == [Idle EXCEPT !.pc = "off"]

NoRet == [op |-> "none", aid |-> 0, val |-> FALSE, wrote |-> FALSE, raised |-> FALSE]

\* the call in slot p, on auction aid, returns v (create_auction returns aid: v is
\* TRUE); wrote tells whether the returning step changed the stored auctions
Return(p, v) ==
    /\ calls' = [calls EXCEPT ![p] = Idle]
    /\ ret' = [op |-> calls[p].op, aid |-> calls[p].aid, val |-> v,
               wrote |-> auctions' # auctions, raised |-> FALSE]

\* the first step of a call returns v at once
ReturnAtOnce(op, id, v) ==
    /\ calls' = calls
    /\ ret' = [op |-> op, aid |-> id, val |-> v, wrote |-> FALSE, raised |-> FALSE]

\* the call in slot p ends with an exception that it does not catch
Raise(p) ==
    /\ calls' = [calls EXCEPT ![p] = Idle]
    /\ ret' = [op |-> calls[p].op, aid |-> calls[p].aid, val |-> FALSE,
               wrote |-> auctions' # auctions, raised |-> TRUE]

Goto(p, c) ==
    /\ calls' = [calls EXCEPT ![p] = c]
    /\ ret' = NoRet

BidsInFlight(id) ==
    Cardinality({q \in Procs : calls[q].op = "place_bid" /\ calls[q].aid = id})

----------------------------------------------------------------------------
(* services.py: TelegramNotificationService *)

\* notify_auction_ended: winner_name is bound only when the auction has a
\* leader, and is read for the message to the admins whatever the leader is;
\* a send that fails is logged and skipped
notify_auction_ended_raises(a) == a.bids = <<>>

----------------------------------------------------------------------------
(* services.py: AuctionService *)

\* create_auction that computes end_time before it decides on the status
CreateAuctionCheck_ScheduledWithEnd(p, creator, price, d) ==
    /\ calls[p].pc = "idle"
    /\ nextId \in DOMAIN auctions
    /\ LET active == get_active_auctions
       IN  Goto(p, [Idle EXCEPT !.op = "create_auction", !.pc = "ca_insert",
                                !.aid = nextId, !.uid = creator, !.amount = price,
                                !.dur = PostInitDuration(d),
                                !.status = IF active # <<>> THEN "scheduled" ELSE "active",
                                !.end_time = now + MinutesPerHour * d,
                                !.created_at = now])
    /\ nextId' = nextId + 1
    /\ UNCHANGED <<bid_contexts, conversations, now, users, auctions, rows, sched>>

\* create_auction without the check for active auctions
CreateAuctionCheck_AlwaysActive(p, creator, price, d) ==
    /\ calls[p].pc = "idle"
    /\ nextId \in DOMAIN auctions
    /\ Goto(p, [Idle EXCEPT !.op = "create_auction", !.pc = "ca_insert",
                            !.aid = nextId, !.uid = creator, !.amount = price,
                            !.dur = PostInitDuration(d),
                            !.status = "active",
                            !.end_time = now + MinutesPerHour * d,
                            !.created_at = now])
    /\ nextId' = nextId + 1
    /\ UNCHANGED <<bid_contexts, conversations, now, users, auctions, rows, sched>>

\* create_auction: uuid4(), get_active_auctions(), build the Auction
CreateAuctionCheck(p, creator, price, d) ==
    /\ calls[p].pc = "idle"
    /\ nextId \in DOMAIN auctions
    /\ LET active == get_active_auctions
       IN  Goto(p, [Idle EXCEPT !.op = "create_auction", !.pc = "ca_insert",
                                !.aid = nextId, !.uid = creator, !.amount = price,
                                !.dur = PostInitDuration(d),
                                !.status = IF active # <<>> THEN "scheduled" ELSE "active",
                                !.end_time = IF active # <<>> THEN None
                                             ELSE now + MinutesPerHour * d,
                                !.created_at = now])
    /\ nextId' = nextId + 1
    /\ UNCHANGED <<bid_contexts, conversations, now, users, auctions, rows, sched>>

\* create_auction: auction_repo.create_auction(auction); return auction_id
CreateAuctionInsert(p) ==
    /\ calls[p].pc = "ca_insert"
    /\ LET c == calls[p]
       IN  create_auction_row(c.aid,
              [status |-> c.status, title |-> FirstTitle, description |-> NoText,
               start_price |-> c.amount, current_price |-> c.amount,
               duration_hours |-> c.dur, end_time |-> c.end_time,
               created_at |-> c.created_at, participants |-> <<>>, bids |-> <<>>])
    /\ Return(p, TRUE)
    /\ UNCHANGED <<bid_contexts, conversations, now, users, nextId, sched>>

\* register_user: get_user_by_username(username), existing_user
RegisterGetUserByUsername(p, u, name) ==
    /\ calls[p].pc = "idle"
    /\ UNCHANGED <<bid_contexts, conversations, now, users, auctions, rows, nextId, sched>>
    /\ IF get_user_by_username(name) # {}
       THEN ReturnAtOnce("register_user", 0, FALSE)
       ELSE Goto(p, [Idle EXCEPT !.op = "register_user", !.pc = "ru_create",
                                 !.uid = u, !.username = name])

\* register_user: is_admin from ADMIN_IDS, User(...), return create_user(user)
RegisterCreateUser(p) ==
    /\ calls[p].pc = "ru_create"
    /\ UNCHANGED <<bid_contexts, conversations, now, auctions, rows, nextId, sched>>
    /\ create_user(calls[p].uid, calls[p].username, calls[p].uid \in AdminIds)
    /\ calls' = [calls EXCEPT ![p] = Idle]
    /\ ret' = [op |-> "register_user", aid |-> 0, val |-> users' # users,
               wrote |-> FALSE, raised |-> FALSE]

\* join_auction: get_auction, is_active
JoinGetAuction(p, id, u) ==
    /\ calls[p].pc = "idle"
    /\ UNCHANGED <<bid_contexts, conversations, now, users, auctions, rows, nextId, sched>>
    /\ LET a == get_auction(id)
       IN  IF a = NoAuction \/ ~is_active(a, now)
           THEN ReturnAtOnce("join_auction", id, FALSE)
           ELSE Goto(p, [Idle EXCEPT !.op = "join_auction", !.pc = "ja_user",
                                     !.aid = id, !.uid = u])

\* join_auction without the is_blocked check
JoinGetUser_NoBlockCheck(p) ==
    /\ calls[p].pc = "ja_user"
    /\ UNCHANGED <<bid_contexts, conversations, now, users, auctions, rows, nextId, sched>>
    /\ LET user == get_user(calls[p].uid)
       IN  IF ~user.registered
           THEN Return(p, FALSE)
           ELSE Goto(p, [calls[p] EXCEPT !.pc = "ja_add"])

\* join_auction: get_user, is_blocked
JoinGetUser(p) ==
    /\ calls[p].pc = "ja_user"
    /\ UNCHANGED <<bid_contexts, conversations, now, users, auctions, rows, nextId, sched>>
    /\ LET user == get_user(calls[p].uid)
       IN  IF ~user.registered \/ user.is_blocked
           THEN Return(p, FALSE)
           ELSE Goto(p, [calls[p] EXCEPT !.pc = "ja_add"])

\* join_auction: return add_participant(auction_id, user_id)
JoinAddParticipant(p) ==
    /\ calls[p].pc = "ja_add"
    /\ add_participant(calls[p].aid, calls[p].uid)
    /\ Return(p, TRUE)
    /\ UNCHANGED <<bid_contexts, conversations, now, users, rows, nextId, sched>>

\* place_bid: get_auction, is_active
PlaceBidGetAuction(p, id, u, amt) ==
    /\ calls[p].pc = "idle"
    /\ Len(auctions[id].bids) + BidsInFlight(id) < MaxBids
    /\ UNCHANGED <<bid_contexts, conversations, now, users, auctions, rows, nextId, sched>>
    /\ LET a == get_auction(id)
       IN  IF a = NoAuction \/ ~is_active(a, now)
           THEN ReturnAtOnce("place_bid", id, FALSE)
           ELSE Goto(p, [Idle EXCEPT !.op = "place_bid", !.pc = "pb_user",
                                     !.aid = id, !.uid = u, !.amount = amt,
                                     !.price = a.current_price,
                                     !.joined = u \in a.participants,
                                     !.previous_leader = current_leader(id).user_id])

\* place_bid without the check of user_id against auction.participants
PlaceBidGetUser_NoParticipantCheck(p) ==
    /\ calls[p].pc = "pb_user"
    /\ UNCHANGED <<bid_contexts, conversations, now, users, auctions, rows, nextId, sched>>
    /\ LET c == calls[p]
           user == get_user(c.uid)
       IN  IF \/ ~user.registered \/ user.is_blocked
              \/ c.amount <= c.price
           THEN Return(p, FALSE)
           ELSE Goto(p, [c EXCEPT !.pc = "pb_add", !.ts = now])

\* place_bid: get_user, the participant and amount checks, Bid(...)
PlaceBidGetUser(p) ==
    /\ calls[p].pc = "pb_user"
    /\ UNCHANGED <<bid_contexts, conversations, now, users, auctions, rows, nextId, sched>>
    /\ LET c == calls[p]
           user == get_user(c.uid)
       IN  IF \/ ~user.registered \/ user.is_blocked
              \/ ~c.joined
              \/ c.amount <= c.price
           THEN Return(p, FALSE)
           ELSE Goto(p, [c EXCEPT !.pc = "pb_add", !.ts = now])

\* place_bid: success = add_bid(bid)
PlaceBidAddBid(p) ==
    /\ calls[p].pc = "pb_add"
    /\ add_bid(calls[p].aid, [user_id |-> calls[p].uid, amount |-> calls[p].amount,
                              timestamp |-> calls[p].ts])
    /\ Return(p, TRUE)
    /\ UNCHANGED <<bid_contexts, conversations, now, users, rows, nextId, sched>>

\* place_bid: success = add_bid(bid), with the notifications still to come
PlaceBidAddBidAwait(p) ==
    /\ calls[p].pc = "pb_add"
    /\ add_bid(calls[p].aid, [user_id |-> calls[p].uid, amount |-> calls[p].amount,
                              timestamp |-> calls[p].ts])
    /\ Goto(p, [calls[p] EXCEPT !.pc = "pb_notify"])
    /\ UNCHANGED <<bid_contexts, conversations, now, users, rows, nextId, sched>>

\* place_bid: get_auction, notify_bid_placed, notify_bid_overtaken,
\* notify_admin_bid_placed (a send that fails is logged), return success
PlaceBidNotify(p) ==
    /\ calls[p].pc = "pb_notify"
    /\ UNCHANGED <<bid_contexts, conversations, now, users, auctions, rows, nextId, sched>>
    /\ Return(p, TRUE)

\* a notification that undoes the write of its call when it fails
NotifyFails_Rollback(p) ==
    /\ calls[p].pc \in {"pb_notify", "ea_notify"}
    /\ auctions' = [auctions EXCEPT ![calls[p].aid] =
                       IF calls[p].pc = "ea_notify" THEN [@ EXCEPT !.status = "active"]
                       ELSE [@ EXCEPT !.bids = SubSeq(@, 1, Len(@) - 1),
                                      !.current_price = calls[p].price]]
    /\ Raise(p)
    /\ UNCHANGED <<bid_contexts, conversations, now, users, rows, nextId, sched>>

\* a read of the store inside a notification raises (get_user in
\* notify_auction_ended, get_all_users in notify_admin_bid_placed and
\* notify_auction_ended): the call ends with that exception
NotifyFails(p) ==
    /\ calls[p].pc \in {"pb_notify", "ea_notify"}
    /\ UNCHANGED <<bid_contexts, conversations, now, users, auctions, rows, nextId, sched>>
    /\ Raise(p)

\* the store fails inside add_bid, add_participant or update_auction_status:
\* except Exception: return False, which the service returns as its result
WriteFails(p) ==
    /\ calls[p].pc \in {"pb_add", "ja_add", "ea_update"}
    /\ UNCHANGED <<bid_contexts, conversations, now, users, auctions, rows, nextId, sched>>
    /\ Return(p, FALSE)

\* end_auction without the status check
EndGetAuction_NoStatusCheck(p, id, admin) ==
    /\ calls[p].pc = "idle"
    /\ UNCHANGED <<bid_contexts, conversations, now, users, auctions, rows, nextId, sched>>
    /\ LET a == get_auction(id)
       IN  IF a = NoAuction
           THEN ReturnAtOnce("end_auction", id, FALSE)
           ELSE Goto(p, [Idle EXCEPT !.op = "end_auction", !.pc = "ea_user",
                                     !.aid = id, !.uid = admin])

\* end_auction: get_auction, status check
EndGetAuction(p, id, admin) ==
    /\ calls[p].pc = "idle"
    /\ UNCHANGED <<bid_contexts, conversations, now, users, auctions, rows, nextId, sched>>
    /\ LET a == get_auction(id)
       IN  IF a = NoAuction \/ a.status # "active"
           THEN ReturnAtOnce("end_auction", id, FALSE)
           ELSE Goto(p, [Idle EXCEPT !.op = "end_auction", !.pc = "ea_user",
                                     !.aid = id, !.uid = admin])

\* end_auction without the is_admin check
EndGetUser_NoAdminCheck(p) ==
    /\ calls[p].pc = "ea_user"
    /\ UNCHANGED <<bid_contexts, conversations, now, users, auctions, rows, nextId, sched>>
    /\ LET admin == get_user(calls[p].uid)
       IN  IF ~admin.registered
           THEN Return(p, FALSE)
           ELSE Goto(p, [calls[p] EXCEPT !.pc = "ea_update"])

\* end_auction: get_user(admin_id), is_admin
EndGetUser(p) ==
    /\ calls[p].pc = "ea_user"
    /\ UNCHANGED <<bid_contexts, conversations, now, users, auctions, rows, nextId, sched>>
    /\ LET admin == get_user(calls[p].uid)
       IN  IF ~admin.registered \/ ~admin.is_admin
           THEN Return(p, FALSE)
           ELSE Goto(p, [calls[p] EXCEPT !.pc = "ea_update"])

\* end_auction: success = update_auction_status(auction_id, COMPLETED)
EndUpdateStatus(p) ==
    /\ calls[p].pc = "ea_update"
    /\ update_auction_status(calls[p].aid, "completed")
    /\ Goto(p, [calls[p] EXCEPT !.pc = "ea_notify"])
    /\ UNCHANGED <<bid_contexts, conversations, now, users, rows, nextId, sched>>

\* end_auction: get_auction, notify_auction_ended(updated_auction), return success
EndNotify(p) ==
    /\ calls[p].pc = "ea_notify"
    /\ UNCHANGED <<bid_contexts, conversations, now, users, auctions, rows, nextId, sched>>
    /\ LET updated == get_auction(calls[p].aid)
       IN  IF updated # NoAuction /\ notify_auction_ended_raises(updated)
           THEN Raise(p)
           ELSE Return(p, TRUE)

\* edit_auction_title that refuses an auction with bids, as edit_auction_price
\* does
EditAuctionTitle_NoBidsOnly(p, id, new_title) ==
    /\ calls[p].pc = "idle"
    /\ IF get_auction(id) = NoAuction \/ get_auction(id).bids # <<>>
       THEN auctions' = auctions
       ELSE update_auction_title(id, new_title)
    /\ ret' = [op |-> "edit_auction_title", aid |-> id,
               val |-> get_auction(id) # NoAuction /\ get_auction(id).bids = <<>>,
               wrote |-> auctions' # auctions, raised |-> FALSE]
    /\ UNCHANGED <<bid_contexts, conversations, now, users, rows, nextId, calls, sched>>

\* edit_auction_title: return update_auction_title(auction_id, new_title)
EditAuctionTitle(p, id, new_title) ==
    /\ calls[p].pc = "idle"
    /\ update_auction_title(id, new_title)
    /\ ret' = [op |-> "edit_auction_title", aid |-> id, val |-> TRUE,
               wrote |-> auctions' # auctions, raised |-> FALSE]
    /\ UNCHANGED <<bid_contexts, conversations, now, users, rows, nextId, calls, sched>>

\* edit_auction_description: return update_auction_description(auction_id,
\* new_description)
EditAuctionDescription(p, id, new_description) ==
    /\ calls[p].pc = "idle"
    /\ update_auction_description(id, new_description)
    /\ ret' = [op |-> "edit_auction_description", aid |-> id, val |-> TRUE,
               wrote |-> auctions' # auctions, raised |-> FALSE]
    /\ UNCHANGED <<bid_contexts, conversations, now, users, rows, nextId, calls, sched>>

\* edit_auction_price without the check for bids
EditPriceGetAuction_NoBidsCheck(p, id, price) ==
    /\ calls[p].pc = "idle"
    /\ UNCHANGED <<bid_contexts, conversations, now, users, auctions, rows, nextId, sched>>
    /\ LET a == get_auction(id)
       IN  IF a = NoAuction
           THEN ReturnAtOnce("edit_auction_price", id, FALSE)
           ELSE Goto(p, [Idle EXCEPT !.op = "edit_auction_price", !.pc = "ep_update",
                                     !.aid = id, !.amount = price])

\* edit_auction_price: get_auction, bids check
EditPriceGetAuction(p, id, price) ==
    /\ calls[p].pc = "idle"
    /\ UNCHANGED <<bid_contexts, conversations, now, users, auctions, rows, nextId, sched>>
    /\ LET a == get_auction(id)
       IN  IF a = NoAuction \/ a.bids # <<>>
           THEN ReturnAtOnce("edit_auction_price", id, FALSE)
           ELSE Goto(p, [Idle EXCEPT !.op = "edit_auction_price", !.pc = "ep_update",
                                     !.aid = id, !.amount = price])

\* edit_auction_price: return update_auction_price(auction_id, new_price)
EditPriceUpdate(p) ==
    /\ calls[p].pc = "ep_update"
    /\ update_auction_price(calls[p].aid, calls[p].amount)
    /\ Return(p, TRUE)
    /\ UNCHANGED <<bid_contexts, conversations, now, users, rows, nextId, sched>>

----------------------------------------------------------------------------
(* services.py: AuctionScheduler *)

Sleeping == [pc |-> "sleep", queue |-> <<>>, target |-> 0, end_time |-> None]

\* start: except Exception: logging.error(...), asyncio.sleep(60)
SchedRaised == [op |-> "scheduler", aid |-> 0, val |-> FALSE, wrote |-> FALSE,
                raised |-> TRUE]

\* _check_expired_auctions over every auction that has an end_time
SchedCheckExpired_AllAuctions ==
    /\ sched.pc = "ready"
    /\ LET expired == SelectSeq(rows,
                         LAMBDA id : get_auction(id).end_time # None
                                     /\ now >= get_auction(id).end_time)
       IN  sched' = [Sleeping EXCEPT !.pc = IF expired = <<>> THEN "check_active"
                                            ELSE "expire",
                                     !.queue = expired]
    /\ ret' = NoRet
    /\ UNCHANGED <<bid_contexts, conversations, now, users, auctions, rows, nextId, calls>>

\* _check_expired_auctions that takes every Active auction for expired
SchedCheckExpired_NoTimeCheck ==
    /\ sched.pc = "ready"
    /\ LET active == get_active_auctions
       IN  sched' = [Sleeping EXCEPT !.pc = IF active = <<>> THEN "check_active"
                                            ELSE "expire",
                                     !.queue = active]
    /\ ret' = NoRet
    /\ UNCHANGED <<bid_contexts, conversations, now, users, auctions, rows, nextId, calls>>

\* _check_expired_auctions: get_active_auctions(), now, the expired ones
SchedCheckExpired ==
    /\ sched.pc = "ready"
    /\ LET active == get_active_auctions
           expired == SelectSeq(active,
                         LAMBDA id : get_auction(id).end_time # None
                                     /\ now >= get_auction(id).end_time)
       IN  sched' = [Sleeping EXCEPT !.pc = IF expired = <<>> THEN "check_active"
                                            ELSE "expire",
                                     !.queue = expired]
    /\ ret' = NoRet
    /\ UNCHANGED <<bid_contexts, conversations, now, users, auctions, rows, nextId, calls>>

\* _check_expired_auctions whose update of the status is lost
SchedExpire_SkipWrite ==
    /\ sched.pc = "expire"
    /\ sched' = [sched EXCEPT !.queue = Tail(@), !.target = Head(sched.queue),
                              !.pc = "notify_ended"]
    /\ ret' = NoRet
    /\ UNCHANGED <<bid_contexts, conversations, now, users, auctions, rows, nextId, calls>>

\* _check_expired_auctions: success = update_auction_status(auction_id, COMPLETED)
SchedExpire ==
    /\ sched.pc = "expire"
    /\ update_auction_status(Head(sched.queue), "completed")
    /\ sched' = [sched EXCEPT !.queue = Tail(@), !.target = Head(sched.queue),
                              !.pc = "notify_ended"]
    /\ ret' = NoRet
    /\ UNCHANGED <<bid_contexts, conversations, now, users, rows, nextId, calls>>

\* _check_expired_auctions: get_auction, notify_auction_ended(updated_auction);
\* an exception leaves the tick for the except clause of start, which sleeps
SchedNotifyEnded ==
    /\ sched.pc = "notify_ended"
    /\ LET updated == get_auction(sched.target)
       IN  IF updated # NoAuction /\ notify_auction_ended_raises(updated)
           THEN /\ sched' = Sleeping
                /\ ret' = SchedRaised
           ELSE /\ sched' = [sched EXCEPT !.target = 0,
                                          !.pc = IF sched.queue = <<>> THEN "check_active"
                                                 ELSE "expire"]
                /\ ret' = NoRet
    /\ UNCHANGED <<bid_contexts, conversations, now, users, auctions, rows, nextId, calls>>

\* _check_scheduled_auctions: get_active_auctions()
SchedCheckActive ==
    /\ sched.pc = "check_active"
    /\ sched' = IF get_active_auctions # <<>> THEN Sleeping
                ELSE [Sleeping EXCEPT !.pc = "check_scheduled"]
    /\ ret' = NoRet
    /\ UNCHANGED <<bid_contexts, conversations, now, users, auctions, rows, nextId, calls>>

\* _check_scheduled_auctions without the one-minute delay
SchedCheckScheduled_NoDelay ==
    /\ sched.pc = "check_scheduled"
    /\ LET scheduled == get_scheduled_auctions
       IN  sched' = IF scheduled # <<>>
                    THEN [Sleeping EXCEPT !.pc = "activate", !.target = Head(scheduled)]
                    ELSE Sleeping
    /\ ret' = NoRet
    /\ UNCHANGED <<bid_contexts, conversations, now, users, auctions, rows, nextId, calls>>

\* _check_scheduled_auctions: get_scheduled_auctions(), the one-minute delay
SchedCheckScheduled ==
    /\ sched.pc = "check_scheduled"
    /\ LET scheduled == get_scheduled_auctions
       IN  sched' = IF scheduled # <<>>
                       /\ now - get_auction(Head(scheduled)).created_at >= QueueDelay
                    THEN [Sleeping EXCEPT !.pc = "activate", !.target = Head(scheduled)]
                    ELSE Sleeping
    /\ ret' = NoRet
    /\ UNCHANGED <<bid_contexts, conversations, now, users, auctions, rows, nextId, calls>>

\* activate_scheduled_auction: success = update_auction_status_and_end_time(...),
\* with notify_auction_started still to come
ActivateUpdateAwait ==
    /\ sched.pc = "activate_update"
    /\ update_auction_status_and_end_time(sched.target, "active", sched.end_time)
    /\ sched' = [sched EXCEPT !.pc = "notify_started", !.end_time = None]
    /\ ret' = NoRet
    /\ UNCHANGED <<bid_contexts, conversations, now, users, rows, nextId, calls>>

\* activate_scheduled_auction: notify_auction_started(auction); the tick is over
SchedNotifyStarted ==
    /\ sched.pc = "notify_started"
    /\ sched' = Sleeping
    /\ ret' = NoRet
    /\ UNCHANGED <<bid_contexts, conversations, now, users, auctions, rows, nextId, calls>>

\* the store fails inside update_auction_status: success is False, the
\* notification is skipped and the loop over the expired auctions goes on
SchedExpireFails ==
    /\ sched.pc = "expire"
    /\ sched' = [sched EXCEPT !.queue = Tail(@),
                              !.pc = IF Tail(sched.queue) = <<>> THEN "check_active"
                                     ELSE "expire"]
    /\ ret' = NoRet
    /\ UNCHANGED <<bid_contexts, conversations, now, users, auctions, rows, nextId, calls>>

\* the awaited calls of a tick that let an exception through: the reads of the
\* store and the notifications
RaisingSteps ==
    {"ready", "check_active", "check_scheduled", "activate",
     "notify_ended", "notify_started"}

\* main, finally: scheduler.stop() sets running to False and returns without
\* an await, scheduler_task.cancel() follows at once: CancelledError is thrown
\* into the await at which the loop is suspended.  Where CancelledError is a
\* BaseException the task ends there; where it is an Exception (Python 3.7)
\* the except clause of start logs it and sleeps before the loop condition
\* ends the loop
Shutdown ==
    /\ sched.pc \notin {"stopping", "exited"}
    /\ \E pc \in {"stopping", "exited"} : sched' = [Sleeping EXCEPT !.pc = pc]
    /\ ret' = NoRet
    /\ UNCHANGED <<bid_contexts, conversations, now, users, auctions, rows, nextId, calls>>

\* start: the sleep of the except clause ends, running is False
StopSleepEnds ==
    /\ sched.pc = "stopping"
    /\ sched' = [Sleeping EXCEPT !.pc = "exited"]
    /\ ret' = NoRet
    /\ UNCHANGED <<bid_contexts, conversations, now, users, auctions, rows, nextId, calls>>

\* a scheduler loop that ends on the first exception
SchedRaise_Stops ==
    /\ sched.pc \in RaisingSteps
    /\ sched' = [Sleeping EXCEPT !.pc = "stopped"]
    /\ ret' = SchedRaised
    /\ UNCHANGED <<bid_contexts, conversations, now, users, auctions, rows, nextId, calls>>

\* start: a call of the tick raises; except Exception: logging.error(...),
\* asyncio.sleep(60), and the while loop goes on
SchedRaise ==
    /\ sched.pc \in RaisingSteps
    /\ sched' = Sleeping
    /\ ret' = SchedRaised
    /\ UNCHANGED <<bid_contexts, conversations, now, users, auctions, rows, nextId, calls>>

\* activate_scheduled_auction with the end_time counted from the creation
ActivateGetAuction_FromCreation ==
    /\ sched.pc = "activate"
    /\ LET a == get_auction(sched.target)
       IN  sched' = IF a = NoAuction \/ a.status # "scheduled" THEN Sleeping
                    ELSE [sched EXCEPT !.pc = "activate_update",
                                       !.end_time = a.created_at
                                                    + MinutesPerHour * a.duration_hours]
    /\ ret' = NoRet
    /\ UNCHANGED <<bid_contexts, conversations, now, users, auctions, rows, nextId, calls>>

\* activate_scheduled_auction: get_auction, status check, the new end_time
ActivateGetAuction ==
    /\ sched.pc = "activate"
    /\ LET a == get_auction(sched.target)
       IN  sched' = IF a = NoAuction \/ a.status # "scheduled" THEN Sleeping
                    ELSE [sched EXCEPT !.pc = "activate_update",
                                       !.end_time = now + MinutesPerHour * a.duration_hours]
    /\ ret' = NoRet
    /\ UNCHANGED <<bid_contexts, conversations, now, users, auctions, rows, nextId, calls>>

\* activate_scheduled_auction: update_auction_status_and_end_time(ACTIVE, end_time)
ActivateUpdate ==
    /\ sched.pc = "activate_update"
    /\ update_auction_status_and_end_time(sched.target, "active", sched.end_time)
    /\ sched' = Sleeping
    /\ ret' = NoRet
    /\ UNCHANGED <<bid_contexts, conversations, now, users, rows, nextId, calls>>

----------------------------------------------------------------------------
(* handlers/conversations.py *)

\* toggle_user_block: get_user(target), update_user_status(target, is_blocking)
ToggleUserBlock(u, blocking) ==
    /\ LET target == get_user(u)
       IN  /\ target.registered /\ ~target.is_admin
           /\ target.is_blocked # blocking
    /\ update_user_status(u, blocking)
    /\ ret' = NoRet
    /\ UNCHANGED <<bid_contexts, conversations, now, auctions, rows, nextId, calls, sched>>

\* handle_callback: user = get_user(effective_user.id); data is "block_<id>"
\* or "unblock_<id>": toggle_user_block
HandleCallbackBlock(p, requester, u, blocking) ==
    /\ calls[p].pc = "idle"
    /\ UNCHANGED <<bid_contexts, conversations, now, users, auctions, rows, nextId, sched>>
    /\ Goto(p, [Idle EXCEPT !.op = "toggle_user_block", !.pc = "tb_target",
                            !.uid = requester, !.target = u, !.blocking = blocking])

\* toggle_user_block without the is_admin check of the target
ToggleBlockGetUser_NoAdminCheck(p) ==
    /\ calls[p].pc = "tb_target"
    /\ UNCHANGED <<bid_contexts, conversations, now, users, auctions, rows, nextId, sched>>
    /\ LET target_user == get_user(calls[p].target)
       IN  IF ~target_user.registered
           THEN Return(p, FALSE)
           ELSE Goto(p, [calls[p] EXCEPT !.pc = "tb_update"])

\* toggle_user_block: target_user = get_user(user_id); absent or an admin
ToggleBlockGetUser(p) ==
    /\ calls[p].pc = "tb_target"
    /\ UNCHANGED <<bid_contexts, conversations, now, users, auctions, rows, nextId, sched>>
    /\ LET target_user == get_user(calls[p].target)
       IN  IF ~target_user.registered \/ target_user.is_admin
           THEN Return(p, FALSE)
           ELSE Goto(p, [calls[p] EXCEPT !.pc = "tb_update"])

\* toggle_user_block: update_user_status(user_id, is_blocking)
ToggleBlockUpdate(p) ==
    /\ calls[p].pc = "tb_update"
    /\ UNCHANGED <<bid_contexts, conversations, now, auctions, rows, nextId, sched>>
    /\ update_user_status(calls[p].target, calls[p].blocking)
    /\ Return(p, TRUE)

\* create_start_price that keeps whatever number it parsed
create_start_price_AnyPrice(price) == TRUE

\* create_start_price: float(text) is kept unless price <= 0 (ValueError,
\* the price is asked again)
create_start_price(price) == ~(price <= 0)

\* create_duration: int(text) is kept unless duration < 1 (the duration is
\* asked again)
create_duration(duration) == ~(duration < MinDuration)

\* edit_price_input: float(text) is handed to edit_auction_price unless
\* new_price <= 0 (ValueError, the price is asked again)
edit_price_input(new_price) == ~(new_price <= 0)

\* base.py: bid_contexts = {}; NoContext stands for a user without an entry
NoContext == 0

NoContexts == [u \in UserIds |-> NoContext]

\* ConversationHandler.END for every user
NoConversations == [u \in UserIds |-> "END"]

\* no service call is in flight: the Application handles one update at a time
HandlersIdle == \A p \in Procs : calls[p].pc \in {"idle", "off"}

\* bid_start, the entry point of the bidding conversation: the blocked,
\* is_active and participant checks, bid_contexts[user_id] = auction_id,
\* return PLACE_BID
bid_start(u, id) ==
    /\ conversations[u] = "END"
    /\ HandlersIdle
    /\ LET user == get_user(u)
           auction == get_auction(id)
       IN  IF \/ user.registered /\ user.is_blocked
              \/ auction = NoAuction \/ ~is_active(auction, now)
              \/ u \notin auction.participants
           THEN UNCHANGED <<bid_contexts, conversations>>
           ELSE /\ bid_contexts' = [bid_contexts EXCEPT ![u] = id]
                /\ conversations' = [conversations EXCEPT ![u] = "PLACE_BID"]
    /\ ret' = NoRet
    /\ UNCHANGED <<now, users, auctions, rows, nextId, calls, sched>>

\* AuctionService.place_bid with its awaits taken in one step: the checks
place_bid_accepted(id, u, amount) ==
    LET auction == get_auction(id)
        user == get_user(u)
    IN  /\ auction # NoAuction /\ is_active(auction, now)
        /\ user.registered /\ ~user.is_blocked
        /\ u \in auction.participants
        /\ ~(amount <= auction.current_price)

\* place_bid of the conversation, on a message of a user in PLACE_BID: the
\* cancel text ends the conversation; a text that float() refuses and a bid
\* that the service rejects return PLACE_BID; a number without an entry in
\* bid_contexts is answered with "bid context lost"; the finally clause
\* deletes the user's entry on every path
place_bid_message(u, kind, amount) ==
    /\ conversations[u] = "PLACE_BID"
    /\ HandlersIdle
    /\ LET id == bid_contexts[u]
           retry == conversations' = conversations
           end == conversations' = [conversations EXCEPT ![u] = "END"]
       IN  /\ bid_contexts' = [bid_contexts EXCEPT ![u] = NoContext]
           /\ IF kind = "cancel"
              THEN /\ end /\ auctions' = auctions /\ ret' = NoRet
              ELSE IF kind = "text"
              THEN /\ retry /\ auctions' = auctions /\ ret' = NoRet
              ELSE IF id = NoContext
              THEN /\ end /\ auctions' = auctions
                   /\ ret' = [NoRet EXCEPT !.op = "bid_context_lost"]
              ELSE IF place_bid_accepted(id, u, amount)
              THEN /\ Len(auctions[id].bids) < MaxBids
                   /\ add_bid(id, [user_id |-> u, amount |-> amount, timestamp |-> now])
                   /\ end
                   /\ ret' = [op |-> "place_bid", aid |-> id, val |-> TRUE,
                              wrote |-> TRUE, raised |-> FALSE]
              ELSE /\ retry /\ auctions' = auctions
                   /\ ret' = [op |-> "place_bid", aid |-> id, val |-> FALSE,
                              wrote |-> FALSE, raised |-> FALSE]
    /\ UNCHANGED <<now, users, rows, nextId, calls, sched>>

----------------------------------------------------------------------------
(* Environment *)

\* time passes; asyncio.sleep(60) of the scheduler loop elapses
Tick(d) ==
    /\ d = QueueDelay => now % MinutesPerHour < MaxMinute
    /\ d = MinutesPerHour => now \div MinutesPerHour < MaxHour
    /\ now' = now + d
    /\ sched' = IF sched.pc = "sleep" THEN [sched EXCEPT !.pc = "ready"] ELSE sched
    /\ ret' = NoRet
    /\ UNCHANGED <<bid_contexts, conversations, users, auctions, rows, nextId, calls>>

----------------------------------------------------------------------------
(* Specifications *)

FirstNames == <<"admin", "ann", "bob">>

\* user 1 is an admin, users 2 and 3 are registered, user 4 is not
InitUsers ==
    [u \in UserIds |-> [registered |-> u # 4,
                        username |-> IF u = 4 THEN NoName ELSE FirstNames[u],
                        is_admin |-> u \in AdminIds, is_blocked |-> FALSE]]

Admins == {u \in UserIds : InitUsers[u].is_admin}

\* a call starts in the lowest free slot (the slots are interchangeable)
LowestFree(p) == \A q \in Procs : q < p => calls[q].pc # "idle"

CreateAuction(p) ==
    \/ \E c \in Admins, pr \in StartPrices, d \in Durations :
          LowestFree(p) /\ CreateAuctionCheck(p, c, pr, d)
    \/ CreateAuctionInsert(p)

JoinAuction(p) ==
    \/ \E id \in AuctionIds, u \in UserIds : LowestFree(p) /\ JoinGetAuction(p, id, u)
    \/ JoinGetUser(p)
    \/ JoinAddParticipant(p)

PlaceBid(p) ==
    \/ \E id \in AuctionIds, u \in UserIds, amt \in Amounts :
          LowestFree(p) /\ PlaceBidGetAuction(p, id, u, amt)
    \/ PlaceBidGetUser(p)
    \/ PlaceBidAddBid(p)

EndAuction(p) ==
    \/ \E id \in AuctionIds, u \in UserIds : LowestFree(p) /\ EndGetAuction(p, id, u)
    \/ EndGetUser(p)
    \/ EndUpdateStatus(p)
    \/ EndNotify(p)

EditAuctionPrice(p) ==
    \/ \E id \in AuctionIds, pr \in Amounts : LowestFree(p) /\ EditPriceGetAuction(p, id, pr)
    \/ EditPriceUpdate(p)

CheckExpiredAuctions ==
    \/ SchedCheckExpired
    \/ SchedExpire
    \/ SchedNotifyEnded

CheckScheduledAuctions ==
    \/ SchedCheckActive
    \/ SchedCheckScheduled
    \/ ActivateGetAuction
    \/ ActivateUpdate

(* The lane: creation, manual end, expiry and activation of auctions *)

InitLane ==
    /\ now = 0
    /\ users = InitUsers
    /\ auctions = [id \in AuctionIds |-> NoRow]
    /\ rows = <<>>
    /\ nextId = 1
    /\ calls = [p \in Procs |-> Idle]
    /\ sched = [Sleeping EXCEPT !.pc = "ready"]
    /\ ret = NoRet
    /\ bid_contexts = NoContexts
    /\ conversations = NoConversations

NextLane ==
    \/ \E p \in Procs : CreateAuction(p)
    \/ \E p \in Procs : EndAuction(p)
    \/ CheckExpiredAuctions
    \/ CheckScheduledAuctions
    \/ \E d \in TickSteps : Tick(d)

SpecLane == InitLane /\ [][NextLane]_vars

(* The auction that create_auction made Active at time 0 *)

FirstAuction ==
    [status |-> "active", title |-> FirstTitle, description |-> NoText,
     start_price |-> 1, current_price |-> 1,
     duration_hours |-> 1, end_time |-> MinutesPerHour, created_at |-> 0,
     participants |-> <<>>, bids |-> <<>>]

InitFirst(parts) ==
    /\ now = 0
    /\ users = InitUsers
    /\ auctions = [id \in AuctionIds |->
                     IF id = 1 THEN [FirstAuction EXCEPT !.participants = parts]
                     ELSE NoRow]
    /\ rows = <<1>>
    /\ nextId = 2
    /\ sched = [Sleeping EXCEPT !.pc = "ready"]
    /\ ret = NoRet
    /\ bid_contexts = NoContexts
    /\ conversations = NoConversations

(* Joining the first auction *)

InitJoin ==
    /\ InitFirst(<<>>)
    /\ calls = [p \in Procs |-> Idle]

NextJoin ==
    \/ \E p \in Procs : JoinAuction(p)
    \/ \E p \in Procs : EndAuction(p)
    \/ CheckExpiredAuctions
    \/ SchedCheckActive
    \/ SchedCheckScheduled
    \/ \E b \in BOOLEAN : ToggleUserBlock(2, b)
    \/ \E d \in TickSteps : Tick(d)

SpecJoin == InitJoin /\ [][NextJoin]_vars

(* Bidding on the first auction, which users 2 and 3 have joined *)

InitBid ==
    /\ InitFirst(<<2, 3>>)
    /\ calls = [p \in Procs |-> Idle]

NextBid ==
    \/ \E p \in Procs : PlaceBid(p)
    \/ \E p \in Procs : EndAuction(p)
    \/ \E b \in BOOLEAN : ToggleUserBlock(2, b)
    \/ \E d \in TickSteps : Tick(d)

SpecBid == InitBid /\ [][NextBid]_vars

(* The same with one handler call at a time, beside the scheduler task *)

InitBidSeq ==
    /\ InitFirst(<<2, 3>>)
    /\ calls = [p \in Procs |-> IF p = 1 THEN Idle ELSE Off]

NextBidSeq ==
    \/ \E p \in Procs : PlaceBid(p)
    \/ \E p \in Procs : EndAuction(p)
    \/ CheckExpiredAuctions
    \/ SchedCheckActive
    \/ SchedCheckScheduled
    \/ \E b \in BOOLEAN : ToggleUserBlock(2, b)
    \/ \E d \in TickSteps : Tick(d)

SpecBidSeq == InitBidSeq /\ [][NextBidSeq]_vars

(* Editing the start price between the bids, one handler call at a time *)

NextEdit ==
    \/ \E p \in Procs : PlaceBid(p)
    \/ \E p \in Procs : EditAuctionPrice(p)
    \/ \E p \in Procs : EndAuction(p)
    \/ \E d \in TickSteps : Tick(d)

SpecEdit == InitBidSeq /\ [][NextEdit]_vars

(* The queue: the first auction is Active, the auctions created now wait *)
(* as Scheduled                                                           *)

QueueIds == 1..(MaxAuctions + 1)

InitQueue ==
    /\ now = 0
    /\ users = InitUsers
    /\ auctions = [id \in QueueIds |-> IF id = 1 THEN FirstAuction ELSE NoRow]
    /\ rows = <<1>>
    /\ nextId = 2
    /\ calls = [p \in Procs |-> Idle]
    /\ sched = [Sleeping EXCEPT !.pc = "ready"]
    /\ ret = NoRet
    /\ bid_contexts = NoContexts
    /\ conversations = NoConversations

NextQueue ==
    \/ \E p \in Procs : CreateAuction(p)
    \/ \E p \in Procs : EndAuction(p)
    \/ CheckExpiredAuctions
    \/ CheckScheduledAuctions
    \/ \E d \in TickSteps : Tick(d)

SpecQueue == InitQueue /\ [][NextQueue]_vars

(* The lane with one handler call at a time, the loop of the scheduler     *)
(* running for ever and the time advancing                                 *)

\* some comparison of the scheduler with datetime.now() is still false
TimePending ==
    \E id \in DOMAIN auctions :
       \/ /\ auctions[id].status = "active"
          /\ auctions[id].end_time # None
          /\ now < auctions[id].end_time
       \/ /\ auctions[id].status = "scheduled"
          /\ now - auctions[id].created_at < QueueDelay

CanStep(d) ==
    \/ d = QueueDelay /\ now % MinutesPerHour < MaxMinute
    \/ d = MinutesPerHour /\ (now \div MinutesPerHour < MaxHour \/ TimePending)

\* asyncio.sleep(60) of the scheduler loop elapses.  The clock runs on past
\* MaxHour for as long as an end_time or a queueing delay lies ahead; once
\* every such comparison is true for good, the loop wakes up at the same time.
Sleep(d) ==
    /\ CanStep(d) \/ \A e \in TickSteps : ~CanStep(e)
    /\ now' = IF CanStep(d) THEN now + d ELSE now
    /\ sched' = IF sched.pc = "sleep" THEN [sched EXCEPT !.pc = "ready"] ELSE sched
    /\ ret' = NoRet
    /\ UNCHANGED <<bid_contexts, conversations, users, auctions, rows, nextId, calls>>

InitLive ==
    /\ now = 0
    /\ users = InitUsers
    /\ auctions = [id \in AuctionIds |-> NoRow]
    /\ rows = <<>>
    /\ nextId = 1
    /\ calls = [p \in Procs |-> IF p = 1 THEN Idle ELSE Off]
    /\ sched = [Sleeping EXCEPT !.pc = "ready"]
    /\ ret = NoRet
    /\ bid_contexts = NoContexts
    /\ conversations = NoConversations

NextLive ==
    \/ \E p \in Procs : CreateAuction(p)
    \/ \E p \in Procs : EndAuction(p)
    \/ CheckExpiredAuctions
    \/ CheckScheduledAuctions
    \/ \E d \in TickSteps : Sleep(d)

\* the loop of AuctionScheduler.start never stops and its sleep always ends
SchedulerRuns ==
    /\ WF_vars(SchedCheckExpired)
    /\ WF_vars(SchedExpire)
    /\ WF_vars(SchedNotifyEnded)
    /\ WF_vars(SchedCheckActive)
    /\ WF_vars(SchedCheckScheduled)
    /\ WF_vars(ActivateGetAuction)
    /\ WF_vars(ActivateUpdate)
    /\ WF_vars(\E d \in TickSteps : Sleep(d))

SpecLive == InitLive /\ [][NextLive]_vars /\ SchedulerRuns

(* The queue with one handler call at a time and the scheduler loop        *)
(* running for ever                                                        *)

InitQueueLive ==
    /\ now = 0
    /\ users = InitUsers
    /\ auctions = [id \in QueueIds |-> IF id = 1 THEN FirstAuction ELSE NoRow]
    /\ rows = <<1>>
    /\ nextId = 2
    /\ calls = [p \in Procs |-> IF p = 1 THEN Idle ELSE Off]
    /\ sched = [Sleeping EXCEPT !.pc = "ready"]
    /\ ret = NoRet
    /\ bid_contexts = NoContexts
    /\ conversations = NoConversations

SpecQueueLive == InitQueueLive /\ [][NextLive]_vars /\ SchedulerRuns

(* Failures of the store and of the notifications: the first auction is     *)
(* Active, a second one is queued; one handler call at a time beside the    *)
(* scheduler loop, whose sleep always ends                                  *)

QueuedAuction ==
    [status |-> "scheduled", title |-> FirstTitle, description |-> NoText,
     start_price |-> 1, current_price |-> 1,
     duration_hours |-> 1, end_time |-> None, created_at |-> 0,
     participants |-> <<>>, bids |-> <<>>]

InitFault ==
    /\ now = 0
    /\ users = InitUsers
    /\ auctions = [id \in AuctionIds |->
                     IF id = 1 THEN [FirstAuction EXCEPT !.participants = <<2>>]
                     ELSE IF id = 2 THEN QueuedAuction
                     ELSE NoRow]
    /\ rows = <<1, 2>>
    /\ nextId = 3
    /\ calls = [p \in Procs |-> IF p = 1 THEN Idle ELSE Off]
    /\ sched = [Sleeping EXCEPT !.pc = "ready"]
    /\ ret = NoRet
    /\ bid_contexts = NoContexts
    /\ conversations = NoConversations

\* user 3 joins the first auction
JoinFirst(p) ==
    \/ LowestFree(p) /\ JoinGetAuction(p, 1, 3)
    \/ JoinGetUser(p)
    \/ JoinAddParticipant(p)

\* users 2 and 3 bid on the first auction
PlaceBidNotifying(p) ==
    \/ \E u \in {2, 3}, amt \in Amounts :
          LowestFree(p) /\ PlaceBidGetAuction(p, 1, u, amt)
    \/ PlaceBidGetUser(p)
    \/ PlaceBidAddBidAwait(p)
    \/ PlaceBidNotify(p)

NextFault ==
    \/ \E p \in Procs : JoinFirst(p)
    \/ \E p \in Procs : PlaceBidNotifying(p)
    \/ \E p \in Procs : EndAuction(p)
    \/ \E p \in Procs : NotifyFails(p)
    \/ \E p \in Procs : WriteFails(p)
    \/ CheckExpiredAuctions
    \/ SchedExpireFails
    \/ SchedCheckActive
    \/ SchedCheckScheduled
    \/ ActivateGetAuction
    \/ ActivateUpdateAwait
    \/ SchedNotifyStarted
    \/ SchedRaise
    \/ \E d \in TickSteps : Sleep(d)

SpecFault ==
    InitFault /\ [][NextFault]_vars /\ WF_vars(\E d \in TickSteps : Sleep(d))

(* The creation conversation: the admin types any number for the price and  *)
(* for the duration, and for the new price of an edit                       *)

RawPrices == {0 - 1, 0, MaxAmount} \cup StartPrices
RawDurations == {0 - 1, 0} \cup Durations

\* the step of the conversation that turned the input down
Rejected(op) ==
    /\ ReturnAtOnce(op, 0, FALSE)
    /\ UNCHANGED <<bid_contexts, conversations, now, users, auctions, rows, nextId, sched>>

\* create_start_price, create_duration, then create_custom_message calls
\* create_auction with the numbers that were kept
CreateConversation(p) ==
    \/ \E c \in Admins, pr \in RawPrices, d \in RawDurations :
          /\ LowestFree(p)
          /\ calls[p].pc = "idle"
          /\ IF ~create_start_price(pr) THEN Rejected("create_start_price")
             ELSE IF ~create_duration(d) THEN Rejected("create_duration")
             ELSE CreateAuctionCheck(p, c, pr, d)
    \/ CreateAuctionInsert(p)

\* edit_price_input calls edit_auction_price with the number that was kept
EditPriceConversation(p) ==
    \/ \E id \in AuctionIds, pr \in RawPrices :
          /\ LowestFree(p)
          /\ calls[p].pc = "idle"
          /\ IF ~edit_price_input(pr) THEN Rejected("edit_price_input")
             ELSE EditPriceGetAuction(p, id, pr)
    \/ EditPriceUpdate(p)

NextCreate ==
    \/ \E p \in Procs : CreateConversation(p)
    \/ \E p \in Procs : EditPriceConversation(p)
    \/ \E p \in Procs : EndAuction(p)
    \/ CheckExpiredAuctions
    \/ CheckScheduledAuctions
    \/ \E d \in TickSteps : Tick(d)

SpecCreate == InitLive /\ [][NextCreate]_vars

(* Registration: nobody is registered yet; the users type a username, two   *)
(* registrations may be in flight                                           *)

Usernames == {"ann", "bob"}

RegisterUser(p) ==
    \/ \E u \in UserIds, name \in Usernames :
          LowestFree(p) /\ RegisterGetUserByUsername(p, u, name)
    \/ RegisterCreateUser(p)

InitRegister ==
    /\ now = 0
    /\ users = [u \in UserIds |-> [registered |-> FALSE, username |-> NoName,
                                   is_admin |-> FALSE, is_blocked |-> FALSE]]
    /\ auctions = [id \in AuctionIds |-> NoRow]
    /\ rows = <<>>
    /\ nextId = 1
    /\ calls = [p \in Procs |-> Idle]
    /\ sched = [Sleeping EXCEPT !.pc = "ready"]
    /\ ret = NoRet
    /\ bid_contexts = NoContexts
    /\ conversations = NoConversations

NextRegister ==
    \/ \E p \in Procs : RegisterUser(p)
    \/ \E u \in UserIds, b \in BOOLEAN : ToggleUserBlock(u, b)
    \/ \E d \in TickSteps : Tick(d)

SpecRegister == InitRegister /\ [][NextRegister]_vars

(* Blocking: any user may send the callback data of a block or unblock      *)
(* button; bidding goes on, one handler call at a time                      *)

ToggleUserBlockCallback(p) ==
    \/ \E requester \in UserIds, u \in UserIds, b \in BOOLEAN :
          LowestFree(p) /\ HandleCallbackBlock(p, requester, u, b)
    \/ ToggleBlockGetUser(p)
    \/ ToggleBlockUpdate(p)

NextBlock ==
    \/ \E p \in Procs : PlaceBid(p)
    \/ \E p \in Procs : EndAuction(p)
    \/ \E p \in Procs : ToggleUserBlockCallback(p)
    \/ CheckExpiredAuctions
    \/ SchedCheckActive
    \/ SchedCheckScheduled
    \/ \E d \in TickSteps : Tick(d)

SpecBlock == InitBidSeq /\ [][NextBlock]_vars

(* Editing the title and the description of the Active and of the queued     *)
(* auction while bids are placed and auctions ended, one handler call at a   *)
(* time                                                                      *)

EditAuctionText(p) ==
    \/ \E id \in AuctionIds, t \in Texts : LowestFree(p) /\ EditAuctionTitle(p, id, t)
    \/ \E id \in AuctionIds, t \in Texts : LowestFree(p) /\ EditAuctionDescription(p, id, t)

NextText ==
    \/ \E p \in Procs : PlaceBid(p)
    \/ \E p \in Procs : EditAuctionText(p)
    \/ \E p \in Procs : EndAuction(p)
    \/ \E d \in TickSteps : Tick(d)

SpecText == InitFault /\ [][NextText]_vars

(* The tick of the scheduler: the first auction is Active with or without    *)
(* bids when its end_time comes, the second one waits in the queue           *)

NextTick ==
    \/ \E p \in Procs : PlaceBid(p)
    \/ CheckExpiredAuctions
    \/ CheckScheduledAuctions
    \/ \E d \in TickSteps : Tick(d)

SpecTick == InitFault /\ [][NextTick]_vars

(* Shutdown while the scheduler works on the Active and the queued auction  *)

NextShutdown ==
    \/ \E p \in Procs : PlaceBid(p)
    \/ CheckExpiredAuctions
    \/ CheckScheduledAuctions
    \/ Shutdown
    \/ StopSleepEnds
    \/ \E d \in TickSteps : Tick(d)

SpecShutdown == InitFault /\ [][NextShutdown]_vars /\ WF_vars(StopSleepEnds)

(* A price edit and bids on the first auction, two handler calls in flight  *)

NextEditRace ==
    \/ \E p \in Procs : PlaceBid(p)
    \/ \E p \in Procs : EditAuctionPrice(p)
    \/ \E d \in TickSteps : Tick(d)

SpecEditRace == InitBid /\ [][NextEditRace]_vars

(* Joining and bidding around the end_time of the first auction, one        *)
(* handler call at a time beside the scheduler                              *)

NextLate ==
    \/ \E p \in Procs : JoinAuction(p)
    \/ \E p \in Procs : PlaceBid(p)
    \/ CheckExpiredAuctions
    \/ SchedCheckActive
    \/ SchedCheckScheduled
    \/ \E d \in TickSteps : Tick(d)

SpecLate == InitBidSeq /\ [][NextLate]_vars

(* Blocking a user while that user joins or bids: the first auction has     *)
(* participant 2, two handler calls in flight, the clock stands still       *)

InitBlockRace ==
    /\ InitFirst(<<2>>)
    /\ calls = [p \in Procs |-> Idle]

AdminBlocks(p) ==
    \/ \E requester \in AdminIds, u \in UserIds \ AdminIds, b \in BOOLEAN :
          LowestFree(p) /\ HandleCallbackBlock(p, requester, u, b)
    \/ ToggleBlockGetUser(p)
    \/ ToggleBlockUpdate(p)

NextBlockRace ==
    \/ \E p \in Procs : JoinAuction(p)
    \/ \E p \in Procs : PlaceBid(p)
    \/ \E p \in Procs : AdminBlocks(p)

SpecBlockRace == InitBlockRace /\ [][NextBlockRace]_vars

(* Joining and bidding on the first auction, two handler calls in flight    *)

NextJoinBid ==
    \/ \E p \in Procs : JoinAuction(p)
    \/ \E p \in Procs : PlaceBid(p)
    \/ \E p \in Procs : EndAuction(p)

SpecJoinBid == InitBlockRace /\ [][NextJoinBid]_vars

(* The bidding conversation of users 2 and 3 on the first auction, beside   *)
(* the scheduler task                                                       *)

BidConversation ==
    \/ \E u \in UserIds, id \in AuctionIds : bid_start(u, id)
    \/ \E u \in UserIds, kind \in {"cancel", "text", "number"}, amount \in Amounts :
          place_bid_message(u, kind, amount)

NextConversation ==
    \/ BidConversation
    \/ CheckExpiredAuctions
    \/ SchedCheckActive
    \/ SchedCheckScheduled
    \/ \E d \in TickSteps : Tick(d)

SpecConversation == InitBidSeq /\ [][NextConversation]_vars

(* Registration and the block callbacks together: nobody is registered at   *)
(* first, every user has a username of their own to register with           *)

RegisterOwnName(p) ==
    \/ \E u \in UserIds :
          /\ LowestFree(p)
          /\ RegisterGetUserByUsername(p, u, <<"admin", "ann", "bob", "dan">>[u])
    \/ RegisterCreateUser(p)

NextAdminBlock ==
    \/ \E p \in Procs : RegisterOwnName(p)
    \/ \E p \in Procs : ToggleUserBlockCallback(p)

SpecAdminBlock == InitRegister /\ [][NextAdminBlock]_vars

----------------------------------------------------------------------------
(* Properties *)

ActiveIds == {id \in AuctionIds : auctions[id].status = "active"}

BidAmounts(id) == {auctions[id].bids[i].amount : i \in 1..Len(auctions[id].bids)}

MaxOf(S) == CHOOSE x \in S : \A y \in S : y <= x

\* the stored auction id is Active and its end_time has not come
StoredActive(id) ==
    /\ auctions[id].status = "active"
    /\ auctions[id].end_time # None
    /\ now < auctions[id].end_time

\* this step starts a call of op in slot p that goes on to its next await
Starts(p, op) == calls[p].pc = "idle" /\ calls'[p].op = op

\* this step is the step of the call in slot p that waits at pc
StepsFrom(p, pc) == calls[p].pc = pc /\ calls'[p] # calls[p]

\* this step is a call of op that returns at its first check
FailsAtOnce(op) == ret'.op = op /\ ~ret'.val /\ calls' = calls /\ ret' # ret

\* C1: at most one auction has status Active, whatever the interleaving of
\* create_auction calls and the scheduler's activation.
C1_SingleActive == Cardinality(ActiveIds) <= 1

\* C2: when no place_bid is in flight, the stored current_price of an auction
\* with bids is the largest accepted amount.
C2_FinalPriceIsMaxAccepted ==
    (\A p \in Procs : calls[p].op # "place_bid")
        => \A id \in AuctionIds :
              auctions[id].bids # <<>>
                  => auctions[id].current_price = MaxOf(BidAmounts(id))

\* C3: every bid is written with an amount strictly above the current_price
\* stored at that moment, so the amounts in acceptance order strictly increase
\* and exceed start_price.
C3_BidsStrictlyIncrease ==
    [][\A id \in AuctionIds :
          Len(auctions'[id].bids) > Len(auctions[id].bids)
              => /\ auctions'[id].bids[Len(auctions'[id].bids)].amount
                        > auctions[id].current_price
                 /\ \A i \in 1..Len(auctions'[id].bids) :
                        /\ auctions'[id].bids[i].amount > auctions'[id].start_price
                        /\ i > 1 => auctions'[id].bids[i].amount
                                        > auctions'[id].bids[i - 1].amount]_vars

C5_CompletedIsFinal ==
    [][\A id \in AuctionIds :
          auctions[id].status = "completed"
              => /\ auctions'[id].bids = auctions[id].bids
                 /\ auctions'[id].current_price = auctions[id].current_price
                 /\ OrderByTimestamp(auctions'[id].bids)
                        = OrderByTimestamp(auctions[id].bids)]_vars

\* C6: create_auction decides on the Active auctions it reads: none gives an
\* Active auction with end_time = creation time + duration_hours, some gives a
\* Scheduled one without end_time; the row is stored so and the id returned.
C6_CreateActiveOrScheduled ==
    [][\A p \in Procs :
          /\ Starts(p, "create_auction")
                => LET c == calls'[p]
                   IN  /\ c.created_at = now
                       /\ ActiveIds = {}
                            => /\ c.status = "active"
                               /\ c.end_time = now + MinutesPerHour * c.dur
                       /\ ActiveIds # {}
                            => c.status = "scheduled" /\ c.end_time = None
          /\ StepsFrom(p, "ca_insert")
                => LET c == calls[p]
                   IN  /\ auctions[c.aid].status = "absent"
                       /\ auctions'[c.aid].status = c.status
                       /\ auctions'[c.aid].end_time = c.end_time
                       /\ auctions'[c.aid].created_at = c.created_at
                       /\ auctions'[c.aid].duration_hours = c.dur
                       /\ auctions'[c.aid].current_price = auctions'[c.aid].start_price
                       /\ \A id \in AuctionIds \ {c.aid} : auctions'[id] = auctions[id]
                       /\ ret' = [op |-> "create_auction", aid |-> c.aid,
                                  val |-> TRUE, wrote |-> TRUE, raised |-> FALSE]]_vars

\* a create_auction call has returned the id of an auction it stored as Scheduled
C6_Witness ==
    /\ ret.op = "create_auction" /\ ret.val
    /\ auctions[ret.aid].status = "scheduled"
    /\ auctions[ret.aid].end_time = None
    /\ ActiveIds # {}

\* C7: on an Active auction a bid of a registered, non-blocked participant above
\* current_price is accepted: the call returns true, appends exactly that bid,
\* sets current_price to its amount and makes it the leader; a bid equal to
\* current_price returns false.
C7_BidAccepted ==
    [][\A p \in Procs :
          /\ StepsFrom(p, "pb_user")
                => LET c == calls[p]
                   IN  /\ ( /\ users[c.uid].registered /\ ~users[c.uid].is_blocked
                             /\ c.uid \in Participants(c.aid)
                             /\ c.amount > auctions[c.aid].current_price )
                            => calls'[p].pc = "pb_add"
                       /\ c.amount = auctions[c.aid].current_price
                            => /\ ret' = [op |-> "place_bid", aid |-> c.aid,
                                          val |-> FALSE, wrote |-> FALSE, raised |-> FALSE]
                               /\ auctions' = auctions
          /\ StepsFrom(p, "pb_add")
                => LET c == calls[p]
                       new == auctions'[c.aid].bids
                       sorted == OrderByTimestamp(new)
                   IN  /\ ret' = [op |-> "place_bid", aid |-> c.aid,
                                  val |-> TRUE, wrote |-> TRUE, raised |-> FALSE]
                       /\ Len(new) = Len(auctions[c.aid].bids) + 1
                       /\ SubSeq(new, 1, Len(new) - 1) = auctions[c.aid].bids
                       /\ new[Len(new)].user_id = c.uid
                       /\ new[Len(new)].amount = c.amount
                       /\ auctions'[c.aid].current_price = c.amount
                       /\ sorted[Len(sorted)] = new[Len(new)]
                       /\ auctions'[c.aid].status = auctions[c.aid].status
                       /\ auctions'[c.aid].participants = auctions[c.aid].participants]_vars

\* a place_bid call has returned true and its bid leads at the stored price
C7_Witness ==
    /\ ret = [op |-> "place_bid", aid |-> 1, val |-> TRUE, wrote |-> TRUE, raised |-> FALSE]
    /\ auctions[1].bids # <<>>
    /\ current_leader(1).amount = auctions[1].current_price
    /\ auctions[1].current_price > auctions[1].start_price

\* C8: place_bid goes past its first check only on an existing auction that is
\* active, reading its price and participants as stored; with the user absent
\* or blocked, not a participant, or the amount not above that price, it
\* returns false; a place_bid that returns false leaves the auctions unchanged.
C8_BidRejected ==
    [][/\ \A p \in Procs :
            /\ Starts(p, "place_bid")
                  => /\ StoredActive(calls'[p].aid)
                     /\ calls'[p].price = auctions[calls'[p].aid].current_price
                     /\ calls'[p].joined = (calls'[p].uid \in Participants(calls'[p].aid))
            /\ StepsFrom(p, "pb_user")
                  => LET c == calls[p]
                     IN  ( \/ ~users[c.uid].registered \/ users[c.uid].is_blocked
                           \/ c.uid \notin Participants(c.aid)
                           \/ c.amount <= c.price )
                            => /\ ret' = [op |-> "place_bid", aid |-> c.aid,
                                          val |-> FALSE, wrote |-> FALSE, raised |-> FALSE]
                               /\ calls'[p] = Idle
       /\ FailsAtOnce("place_bid") => ~StoredActive(ret'.aid)
       /\ (ret'.op = "place_bid" /\ ~ret'.val) => auctions' = auctions]_vars

\* a place_bid call on the active auction was rejected for its user or amount
C8_Witness ==
    /\ ret = [op |-> "place_bid", aid |-> 1, val |-> FALSE, wrote |-> FALSE, raised |-> FALSE]
    /\ StoredActive(1)

\* C9: join_auction of a registered, non-blocked user on an active auction
\* returns true also when the user is a participant already; the user is then
\* in participants exactly once and a repeated join changes nothing.
C9_JoinIdempotent ==
    [][/\ \A p \in Procs :
            /\ StepsFrom(p, "ja_user")
                  => ( users[calls[p].uid].registered /\ ~users[calls[p].uid].is_blocked
                          => calls'[p].pc = "ja_add" )
            /\ StepsFrom(p, "ja_add")
                  => LET c == calls[p]
                         ps == auctions'[c.aid].participants
                     IN  /\ ret'.op = "join_auction" /\ ret'.aid = c.aid /\ ret'.val
                         /\ Cardinality({i \in 1..Len(ps) : ps[i] = c.uid}) = 1
                         /\ c.uid \in Participants(c.aid)
                               => auctions' = auctions /\ ~ret'.wrote
                         /\ c.uid \notin Participants(c.aid)
                               => ps = Append(auctions[c.aid].participants, c.uid)
       /\ FailsAtOnce("join_auction") => ~StoredActive(ret'.aid)]_vars

\* a join_auction call of a user who was a participant already returned true
C9_Witness ==
    /\ ret = [op |-> "join_auction", aid |-> 1, val |-> TRUE, wrote |-> FALSE, raised |-> FALSE]
    /\ auctions[1].participants # <<>>

\* C10: join_auction goes past its first check only on an existing auction
\* that is active, returns false for a user who is absent or blocked, and a
\* join_auction that returns false leaves the auctions unchanged.
C10_JoinRejected ==
    [][/\ \A p \in Procs :
            /\ Starts(p, "join_auction") => StoredActive(calls'[p].aid)
            /\ StepsFrom(p, "ja_user")
                  => ( ~users[calls[p].uid].registered \/ users[calls[p].uid].is_blocked
                          => /\ ret' = [op |-> "join_auction", aid |-> calls[p].aid,
                                        val |-> FALSE, wrote |-> FALSE, raised |-> FALSE]
                             /\ calls'[p] = Idle )
       /\ (ret'.op = "join_auction" /\ ~ret'.val) => auctions' = auctions]_vars

\* a join_auction call on the active auction was rejected for its user
C10_Witness ==
    /\ ret = [op |-> "join_auction", aid |-> 1, val |-> FALSE, wrote |-> FALSE, raised |-> FALSE]
    /\ StoredActive(1)

\* C11: edit_auction_price goes past its first check only on an existing
\* auction without bids and then sets start_price and current_price to the new
\* price; on an auction with a bid it returns false, and a false return leaves
\* the auctions unchanged.
C11_EditPriceGuard ==
    [][/\ \A p \in Procs :
            /\ Starts(p, "edit_auction_price")
                  => /\ auctions[calls'[p].aid].status # "absent"
                     /\ auctions[calls'[p].aid].bids = <<>>
            /\ StepsFrom(p, "ep_update")
                  => LET c == calls[p]
                     IN  /\ ret'.op = "edit_auction_price" /\ ret'.aid = c.aid /\ ret'.val
                         /\ auctions' = [auctions EXCEPT ![c.aid].start_price = c.amount,
                                                         ![c.aid].current_price = c.amount]
       /\ FailsAtOnce("edit_auction_price")
             => \/ auctions[ret'.aid].status = "absent"
                \/ auctions[ret'.aid].bids # <<>>
       /\ (ret'.op = "edit_auction_price" /\ auctions[ret'.aid].bids # <<>>) => ~ret'.val
       /\ (ret'.op = "edit_auction_price" /\ ~ret'.val) => auctions' = auctions]_vars

\* an edit_auction_price call on the auction with a bid returned false
C11_Witness ==
    /\ ret = [op |-> "edit_auction_price", aid |-> 1, val |-> FALSE, wrote |-> FALSE, raised |-> FALSE]
    /\ auctions[1].bids # <<>>
    /\ auctions[1].current_price > auctions[1].start_price
    /\ auctions[1].start_price > 1

\* C12: a successful end_auction changes only the status of its auction, to
\* Completed: end_time, current_price, bids (so the leader) and participants
\* are as before, and so is every other auction.
C12_EndChangesOnlyStatus ==
    [][\A p \in Procs :
          /\ StepsFrom(p, "ea_update")
                => /\ auctions' = [auctions EXCEPT ![calls[p].aid].status = "completed"]
                   /\ OrderByTimestamp(auctions'[calls[p].aid].bids)
                          = OrderByTimestamp(auctions[calls[p].aid].bids)
          /\ StepsFrom(p, "ea_notify")
                => /\ auctions' = auctions
                   /\ ret'.op = "end_auction" /\ ret'.aid = calls[p].aid
                   /\ ret'.val = ~ret'.raised]_vars

\* end_auction has completed the auction, which keeps its bid, price and end_time
C12_Witness ==
    /\ ret = [op |-> "end_auction", aid |-> 1, val |-> TRUE, wrote |-> FALSE,
              raised |-> FALSE]
    /\ auctions[1].status = "completed"
    /\ auctions[1].bids # <<>>
    /\ auctions[1].current_price = current_leader(1).amount
    /\ auctions[1].end_time = FirstAuction.end_time

\* C13: end_auction goes past its first check only on an existing auction with
\* status Active, returns false for a requester who is absent or not an admin,
\* and an end_auction that returns false leaves the auctions unchanged.
C13_EndRejected ==
    [][/\ \A p \in Procs :
            /\ Starts(p, "end_auction") => auctions[calls'[p].aid].status = "active"
            /\ StepsFrom(p, "ea_user")
                  => ( ~users[calls[p].uid].registered \/ ~users[calls[p].uid].is_admin
                          => /\ ret' = [op |-> "end_auction", aid |-> calls[p].aid,
                                        val |-> FALSE, wrote |-> FALSE, raised |-> FALSE]
                             /\ calls'[p] = Idle )
       /\ FailsAtOnce("end_auction") => auctions[ret'.aid].status # "active"
       /\ (ret'.op = "end_auction" /\ ~ret'.val) => auctions' = auctions]_vars

\* a second end_auction on the auction that is Completed already returned false
C13_Witness ==
    /\ ret = [op |-> "end_auction", aid |-> 1, val |-> FALSE, wrote |-> FALSE, raised |-> FALSE]
    /\ auctions[1].status = "completed"

\* C14: activate_scheduled_auction returns false and changes nothing when the
\* auction is absent, not Scheduled, or some auction is Active; otherwise it
\* sets the status to Active and end_time to activation time + duration_hours.
C14_ActivateGuard ==
    [][/\ (sched.pc = "activate" /\ sched' # sched)
             => LET a == auctions[sched.target]
                IN  IF a.status # "scheduled" \/ ActiveIds # {}
                    THEN sched' = Sleeping /\ auctions' = auctions
                    ELSE /\ sched'.pc = "activate_update"
                         /\ sched'.end_time = now + MinutesPerHour * a.duration_hours
       /\ (sched.pc = "activate_update" /\ sched' # sched)
             => auctions' = [auctions EXCEPT ![sched.target].status = "active",
                                             ![sched.target].end_time = sched.end_time]]_vars

ScheduledIds == {id \in AuctionIds : auctions[id].status = "scheduled"}

\* C15: a scheduler tick that reads no Active auction and finds the
\* earliest-created Scheduled auction at least one minute old goes on to
\* activate it: the auction becomes Active with end_time = the time of the
\* activation + its duration_hours.
C15_TickActivates ==
    [][/\ (sched.pc = "check_active" /\ sched' # sched /\ ActiveIds = {})
             => sched'.pc = "check_scheduled"
       /\ (sched.pc = "check_scheduled" /\ sched' # sched)
             => \A id \in ScheduledIds :
                    ( /\ now - auctions[id].created_at >= QueueDelay
                      /\ \A other \in ScheduledIds :
                             auctions[id].created_at <= auctions[other].created_at )
                       => /\ sched'.pc = "activate"
                          /\ auctions[sched'.target].status = "scheduled"
                          /\ auctions[sched'.target].created_at = auctions[id].created_at
       /\ (sched.pc = "activate" /\ sched' # sched
               /\ auctions[sched.target].status = "scheduled")
             => /\ sched'.pc = "activate_update" /\ sched'.target = sched.target
                /\ sched'.end_time
                       = now + MinutesPerHour * auctions[sched.target].duration_hours
       /\ (sched.pc = "activate_update" /\ sched' # sched)
             => /\ auctions'[sched.target].status = "active"
                /\ auctions'[sched.target].end_time = sched.end_time
                /\ sched.end_time >= auctions[sched.target].created_at + QueueDelay
                       + MinutesPerHour * auctions[sched.target].duration_hours]_vars

\* the first auction has ended and the scheduler has made the second one Active
\* with an end_time counted from its activation, not from its creation
C15_Witness ==
    /\ auctions[1].status = "completed"
    /\ auctions[2].status = "active"
    /\ auctions[2].end_time
          > auctions[2].created_at + MinutesPerHour * auctions[2].duration_hours
    /\ sched = Sleeping

\* the Active auctions whose end_time has come
DueIds == {id \in ActiveIds : auctions[id].end_time # None /\ now >= auctions[id].end_time}

\* C16: a scheduler tick completes exactly the Active auctions whose end_time
\* has come, each once: an auction that is Completed already is not taken up
\* again by a later tick, and a completion changes nothing but the status.
C16_ExpiresOnce ==
    [][/\ (sched.pc = "ready" /\ sched' # sched)
             => /\ {sched'.queue[i] : i \in 1..Len(sched'.queue)} = DueIds
                /\ Len(sched'.queue) = Cardinality(DueIds)
                /\ sched'.pc = IF DueIds = {} THEN "check_active" ELSE "expire"
                /\ auctions' = auctions
       /\ (sched.pc = "expire" /\ sched' # sched)
             => /\ auctions' = [auctions EXCEPT ![Head(sched.queue)].status = "completed"]
                /\ sched'.queue = Tail(sched.queue)
                /\ \A i \in 1..Len(sched'.queue) : sched'.queue[i] # Head(sched.queue)]_vars

\* the first auction is Completed and past its end_time, the second one is
\* Active, and a tick has found nothing to complete
C16_Witness ==
    /\ sched.pc = "check_active"
    /\ auctions[1].status = "completed"
    /\ now >= auctions[1].end_time
    /\ auctions[2].status = "active"
    /\ now < auctions[2].end_time

\* C17: the status of an auction changes only from Scheduled to Active and
\* from Active to Completed (a new auction is stored as Active or Scheduled):
\* no step moves an auction out of Completed, and no auction has another status.
C17_StatusTransitions ==
    [][\A id \in AuctionIds :
          /\ auctions'[id].status \in {"absent", "scheduled", "active", "completed"}
          /\ auctions'[id].status # auctions[id].status
                => \/ /\ auctions[id].status = "absent"
                      /\ auctions'[id].status \in {"scheduled", "active"}
                   \/ /\ auctions[id].status = "scheduled"
                      /\ auctions'[id].status = "active"
                   \/ /\ auctions[id].status = "active"
                      /\ auctions'[id].status = "completed"]_vars

\* the second auction was stored as Scheduled, activated later and is Completed
C17_Witness ==
    /\ auctions[2].status = "completed"
    /\ auctions[2].end_time
          > auctions[2].created_at + MinutesPerHour * auctions[2].duration_hours
    /\ auctions[1].status = "completed"

\* C18: a stored auction has an end_time exactly when its status is Active or
\* Completed; a Scheduled auction has none.
C18_EndTimeIffStarted ==
    \A id \in AuctionIds :
        auctions[id].status # "absent"
            => ( auctions[id].end_time # None
                    <=> auctions[id].status \in {"active", "completed"} )

\* an Active auction with its end_time beside a Scheduled one without
C18_Witness ==
    /\ auctions[1].status = "active" /\ auctions[1].end_time # None
    /\ auctions[2].status = "scheduled" /\ auctions[2].end_time = None
    /\ \A p \in Procs : calls[p].pc \in {"idle", "off"}

C20_QueueDelay ==
    [][/\ (sched.pc = "check_scheduled" /\ sched'.pc = "activate")
             => now - auctions[sched'.target].created_at >= QueueDelay
       /\ \A id \in AuctionIds :
             (auctions[id].status = "scheduled" /\ auctions'[id].status = "active")
                 => /\ now - auctions[id].created_at >= QueueDelay
                    /\ auctions'[id].end_time
                           >= auctions[id].created_at + QueueDelay
                              + MinutesPerHour * auctions[id].duration_hours]_vars

\* the scheduler has found no Active auction and is about to read a queue whose
\* first auction is less than a minute old: its next step declines to activate
C20_Witness ==
    /\ sched.pc = "check_scheduled"
    /\ ActiveIds = {}
    /\ get_scheduled_auctions # <<>>
    /\ now - get_auction(Head(get_scheduled_auctions)).created_at < QueueDelay

\* C21: while the scheduler loop runs and the time advances, every Active
\* auction eventually becomes Completed, whether or not an admin ends it.
C21_ActiveCompletes ==
    \A id \in AuctionIds :
       (auctions[id].status = "active") ~> (auctions[id].status = "completed")

\* an auction whose end_time lies beyond the hours of the clock grid is
\* Completed, the time has reached its end_time and the expiry check is over
C21_Witness ==
    \E id \in AuctionIds :
       /\ auctions[id].status = "completed"
       /\ auctions[id].end_time > MaxHour * MinutesPerHour + MaxMinute
       /\ now >= auctions[id].end_time
       /\ sched.pc = "check_active"
\* the Scheduled auctions that were created first
EarliestScheduled ==
    {id \in DOMAIN auctions :
        /\ auctions[id].status = "scheduled"
        /\ \A other \in DOMAIN auctions :
              auctions[other].status = "scheduled"
                  => auctions[id].created_at <= auctions[other].created_at}

\* C22 (first part): while the scheduler loop runs and the time advances,
\* every Scheduled auction eventually becomes Active.
C22_ScheduledActivates ==
    \A id \in QueueIds :
       (auctions[id].status = "scheduled") ~> (auctions[id].status = "active")

\* C22 (second part): each time the lane is taken while auctions are queued,
\* it is the earliest queued auction that becomes Active.
C22_LaneGoesToQueue ==
    [][\A id \in DOMAIN auctions :
          (auctions[id].status # "active" /\ auctions'[id].status = "active")
              => (EarliestScheduled = {} \/ id \in EarliestScheduled)]_vars

\* C22: every Scheduled auction eventually becomes Active, and each time the
\* lane frees up the earliest queued auction is the one activated.
C22_QueueIsServed == C22_ScheduledActivates /\ C22_LaneGoesToQueue
\* C23: when a notification fails after place_bid, end_auction,
\* activate_scheduled_auction or the expiry check has written its change, the
\* failing step writes nothing and the change is still stored: the bid and its
\* price, or the new status.
C23_NotifyFailureKeepsWrite ==
    [][/\ ret'.raised => (auctions' = auctions /\ rows' = rows /\ users' = users)
       /\ \A p \in Procs :
             (calls[p].pc = "pb_notify" /\ ret'.raised /\ calls'[p].pc = "idle")
                 => LET c == calls[p]
                        bids == auctions'[c.aid].bids
                    IN  /\ \E i \in 1..Len(bids) :
                              bids[i] = [user_id |-> c.uid, amount |-> c.amount,
                                         timestamp |-> c.ts]
                        /\ auctions'[c.aid].current_price = c.amount
       /\ \A p \in Procs :
             (calls[p].pc = "ea_notify" /\ ret'.raised /\ calls'[p].pc = "idle")
                 => auctions'[calls[p].aid].status = "completed"
       /\ (sched.pc = "notify_ended" /\ ret' = SchedRaised)
             => auctions'[sched.target].status = "completed"
       /\ (sched.pc = "notify_started" /\ ret' = SchedRaised)
             => /\ auctions'[sched.target].status \in {"active", "completed"}
                /\ auctions'[sched.target].end_time # None]_vars

\* place_bid has ended with the exception of a notification and its bid is the
\* stored leader at the stored price
C23_Witness ==
    /\ ret = [op |-> "place_bid", aid |-> 1, val |-> FALSE, wrote |-> FALSE,
              raised |-> TRUE]
    /\ auctions[1].bids # <<>>
    /\ auctions[1].current_price = current_leader(1).amount
    /\ auctions[1].current_price > auctions[1].start_price
\* C24: a failure of the store during the write of place_bid, join_auction or
\* end_auction reaches the caller as an error, never as the boolean false of
\* a rejection: every check that rejects comes before the write, so the step
\* of the write returns true or raises.
C24_WriteFailureIsError ==
    [][\A p \in Procs :
          (calls[p].pc \in {"pb_add", "ja_add", "ea_update"} /\ calls'[p].pc = "idle")
              => (ret'.val \/ ret'.raised)]_vars

\* the inputs that the conversation turns down
RejectingSteps == {"create_start_price", "create_duration", "edit_price_input"}

ValidAuction(a) == a.start_price > 0 /\ a.duration_hours >= MinDuration

\* C25: no stored auction has start_price <= 0 or duration_hours < 1, no
\* call of create_auction or edit_auction_price in flight carries such a
\* number, and the step that turns a number down leaves the store, the
\* identifiers and the calls as they were
C25_NoInvalidAuction ==
    /\ [](\A id \in AuctionIds : auctions[id] # NoRow => ValidAuction(auctions[id]))
    /\ [](\A p \in Procs :
             /\ calls[p].op = "create_auction" =>
                   calls[p].amount > 0 /\ calls[p].dur >= MinDuration
             /\ calls[p].op = "edit_auction_price" => calls[p].amount > 0)
    /\ [][ret'.op \in RejectingSteps =>
             UNCHANGED <<bid_contexts, conversations, auctions, rows, nextId, calls>>]_vars

\* a price was turned down after an auction had been created
C25_Witness ==
    /\ ret.op = "create_start_price"
    /\ \E id \in AuctionIds : auctions[id] # NoRow /\ ValidAuction(auctions[id])
    /\ \A id \in AuctionIds : auctions[id] # NoRow => auctions[id].bids = <<>>

Registered == {u \in UserIds : users[u].registered}

\* C26: no two registered users share a username, the username of a
\* registered user never changes, a register_user call goes past its first
\* check only with a username that nobody has, and its create_user returns
\* true only when, at that moment, the username is free and the user_id is
\* not registered; a call that returns false leaves the users as they were.
C26_UniqueUsernames ==
    /\ [](\A u, v \in Registered : users[u].username = users[v].username => u = v)
    /\ [][/\ \A u \in Registered :
                users'[u].registered /\ users'[u].username = users[u].username
          /\ \A p \in Procs :
                /\ Starts(p, "register_user")
                      => get_user_by_username(calls'[p].username) = {}
                /\ StepsFrom(p, "ru_create")
                      => LET c == calls[p]
                             free == get_user_by_username(c.username) = {}
                                        /\ c.uid \notin Registered
                         IN  /\ ret'.op = "register_user"
                             /\ ret'.val = free
                             /\ free => /\ users'[c.uid].registered
                                        /\ users'[c.uid].username = c.username
                                        /\ \A v \in UserIds \ {c.uid} :
                                              users'[v] = users[v]
          /\ ret'.op = "register_user" /\ ~ret'.val => users' = users]_vars

\* of two registrations with the same username that passed the first check
\* together, one has just been stored and the other is about to call
\* create_user
C26_Witness ==
    /\ ret = [op |-> "register_user", aid |-> 0, val |-> TRUE, wrote |-> FALSE,
              raised |-> FALSE]
    /\ \E p \in Procs :
          /\ calls[p].pc = "ru_create"
          /\ calls[p].uid \notin Registered
          /\ get_user_by_username(calls[p].username) # {}


\* C27: is_blocked of a user changes only in the update step of a block or
\* unblock callback whose requester is an admin; a callback of a requester
\* who is not an admin leaves is_blocked of every user as it was.
C27_OnlyAdminBlocks ==
    [][/\ (\E u \in UserIds : users'[u].is_blocked # users[u].is_blocked)
             => \E p \in Procs :
                   /\ StepsFrom(p, "tb_update")
                   /\ users[calls[p].uid].registered
                   /\ users[calls[p].uid].is_admin
       /\ \A p \in Procs :
             ( /\ calls[p].op = "toggle_user_block"
               /\ calls'[p] # calls[p]
               /\ ~users[calls[p].uid].is_admin )
                => \A u \in UserIds : users'[u].is_blocked = users[u].is_blocked]_vars

\* C28: edit_auction_title and edit_auction_description return true for every
\* stored auction, whatever its status and its bids, and the stored auctions
\* differ afterwards in that one text of that one auction at most.
C28_TextEditOnly ==
    [][\A id \in AuctionIds :
          /\ ( /\ ret'.op = "edit_auction_title" /\ ret'.aid = id
               /\ auctions[id] # NoRow )
                => /\ ret'.val
                   /\ \E t \in Texts : auctions' = [auctions EXCEPT ![id].title = t]
          /\ ( /\ ret'.op = "edit_auction_description" /\ ret'.aid = id
               /\ auctions[id] # NoRow )
                => /\ ret'.val
                   /\ \E t \in Texts :
                         auctions' = [auctions EXCEPT ![id].description = t]]_vars

\* the title of a completed auction with bids has just been changed
C28_Witness ==
    /\ ret = [op |-> "edit_auction_title", aid |-> 1, val |-> TRUE, wrote |-> TRUE,
              raised |-> FALSE]
    /\ auctions[1].status = "completed"
    /\ auctions[1].bids # <<>>
    /\ auctions[1].title # FirstTitle

\* the scheduler ends its tick in this step
TickEnds == sched.pc # "sleep" /\ sched'.pc = "sleep"

\* C29: a tick enters the activation check only from the expiry check, when
\* no expired auction is left to complete, and ends only in the activation
\* check: because an auction is Active, because nothing is Scheduled or the
\* earliest Scheduled auction is younger than the delay, or with the
\* activation itself; so the tick that completes the expired auction is the
\* tick that activates the next one.
C29_ExpiryBeforeActivation ==
    [][/\ (sched'.pc = "check_active" /\ sched.pc # "check_active")
             => sched.pc \in {"ready", "notify_ended"} /\ sched'.queue = <<>>
       /\ TickEnds
             => \/ sched.pc = "check_active" /\ get_active_auctions # <<>>
                \/ /\ sched.pc = "check_scheduled"
                   /\ \/ get_scheduled_auctions = <<>>
                      \/ now - get_auction(Head(get_scheduled_auctions)).created_at
                            < QueueDelay
                \/ sched.pc = "activate" /\ get_auction(sched.target).status # "scheduled"
                \/ /\ sched.pc = "activate_update"
                   /\ auctions'[sched.target].status = "active"]_vars


\* C30: when a call raises during a tick the scheduler goes to its sleep and
\* changes nothing in the store, it is asleep or at work in every state, and
\* after every raise the sleep ends and the loop stands before its two
\* checks again.
C30_LoopSurvives ==
    /\ [][ret'.raised /\ ret'.op = "scheduler"
             => sched' = Sleeping /\ auctions' = auctions /\ users' = users]_vars
    /\ [](sched.pc # "stopped")
    /\ (ret = SchedRaised) ~> (sched.pc = "ready")

\* a read of the store has raised in the tick that was to activate the queued
\* auction: the loop sleeps, the auction is still Scheduled
C30_Witness ==
    /\ ret = SchedRaised
    /\ sched = Sleeping
    /\ auctions[1].status = "completed" /\ auctions[1].bids # <<>>
    /\ auctions[2].status = "scheduled"
    /\ now - auctions[2].created_at >= QueueDelay

\* C31: once shutdown is requested the loop exits, and the loop leaves the
\* step in which it is about to write a status (Completed for the expired
\* auction, Active for the queued one) only by writing it.
C31_ShutdownCompletesTransition ==
    /\ (sched.pc = "stopping") ~> (sched.pc = "exited")
    /\ [](sched.pc = "exited" => [](sched.pc = "exited"))
    /\ [][/\ (sched.pc = "expire" /\ sched' # sched)
                => auctions'[Head(sched.queue)].status = "completed"
          /\ (sched.pc = "activate_update" /\ sched' # sched)
                => auctions'[sched.target].status = "active"]_vars

\* C32: once an auction has a bid, no step changes its start_price, and its
\* current_price changes only in a step that appends a bid.
C32_NoEditAfterBid ==
    [][\A id \in AuctionIds :
          auctions[id].bids # <<>>
             => /\ auctions'[id].start_price = auctions[id].start_price
                /\ \/ auctions'[id].current_price = auctions[id].current_price
                   \/ Len(auctions'[id].bids) > Len(auctions[id].bids)]_vars

\* the end_time of the stored auction id has come
Ended(id) == auctions[id].end_time # None /\ now >= auctions[id].end_time

\* C33: no place_bid or join_auction call goes past its first check on an
\* auction whose end_time has come, whatever the stored status, and the call
\* that returns false at its first check changes neither the auctions nor the
\* users.
C33_LateCallRejected ==
    [][/\ \A p \in Procs :
             (Starts(p, "place_bid") \/ Starts(p, "join_auction"))
                => ~Ended(calls'[p].aid)
       /\ (FailsAtOnce("place_bid") \/ FailsAtOnce("join_auction"))
             => auctions' = auctions /\ users' = users]_vars

\* a bid on the first auction has just been refused at its first check: the
\* end_time has come and the auction is still stored as Active
C33_Witness ==
    /\ ret = [op |-> "place_bid", aid |-> 1, val |-> FALSE, wrote |-> FALSE,
              raised |-> FALSE]
    /\ auctions[1].status = "active"
    /\ Ended(1)
    /\ \A p \in Procs : calls[p].pc \in {"idle", "off"}

\* C34: when the expiry check writes Completed over an auction that is stored
\* as Active, that auction has an end_time and the end_time has come.
C34_NoEarlyExpiry ==
    [][(sched.pc = "expire" /\ sched' # sched)
          => LET id == Head(sched.queue)
             IN  auctions[id].status = "active"
                    => /\ auctions[id].end_time # None
                       /\ now >= auctions[id].end_time
                       /\ auctions'[id].status = "completed"]_vars

\* the expiry check has just completed the second auction, which the
\* scheduler had activated, at its end_time or later
C34_Witness ==
    /\ sched.pc = "notify_ended" /\ sched.target = 2
    /\ auctions[2].status = "completed"
    /\ now >= auctions[2].end_time
    /\ auctions[2].end_time > auctions[1].end_time

\* C35: the step that appends a bid to an auction finds the bidder not
\* blocked, and the step that adds a user to the participants finds that user
\* not blocked.
C35_NoWriteForBlocked ==
    [][\A id \in AuctionIds :
          /\ Len(auctions'[id].bids) > Len(auctions[id].bids)
                => ~users[auctions'[id].bids[Len(auctions'[id].bids)].user_id].is_blocked
          /\ \A u \in UserIds :
                ( /\ \E i \in 1..Len(auctions'[id].participants) :
                        auctions'[id].participants[i] = u
                  /\ u \notin Participants(id) )
                   => ~users[u].is_blocked]_vars

\* C36: in every state, the user of every bid of an auction is one of that
\* auction's participants.
C36_BiddersAreParticipants ==
    \A id \in AuctionIds :
        \A i \in 1..Len(auctions[id].bids) :
            auctions[id].bids[i].user_id \in Participants(id)

\* a user who joined after the auction began has a bid on it
C36_Witness ==
    \E i \in 1..Len(auctions[1].bids) :
        /\ auctions[1].bids[i].user_id \in Participants(1)
        /\ auctions[1].bids[i].user_id # 2

\* the step emits the auction-ended notification of auction id: the last
\* step of end_auction or of the scheduler's expiry of that auction
EmitsEnded(id) ==
    \/ \E p \in Procs : /\ calls[p].pc = "ea_notify"
                        /\ calls[p].aid = id
                        /\ calls'[p].pc = "idle"
    \/ /\ sched.pc = "notify_ended"
       /\ sched.target = id
       /\ sched'.pc # "notify_ended" \/ sched'.target # id

\* an end of auction id is past its checks: its status write and its
\* notification are still to come
EndPending(cs, sc, id) ==
    \/ \E p \in Procs : /\ cs[p].pc \in {"ea_update", "ea_notify"}
                        /\ cs[p].aid = id
    \/ sc.pc = "expire" /\ Head(sc.queue) = id
    \/ sc.pc = "notify_ended" /\ sc.target = id

\* C37: the auction-ended notification of an auction is emitted at most once:
\* when it is emitted, no other end of the same auction, by an admin or by the
\* scheduler, is past its checks and about to emit it again.
C37_EndedNotifiedOnce ==
    [][\A id \in AuctionIds :
          EmitsEnded(id) => ~EndPending(calls', sched', id)]_vars

\* place_bid: the users that notify_bid_overtaken is sent to, given the
\* user of the previous leader (0 for None) and the bidder
Overtaken(leader, bidder) ==
    IF leader # 0 /\ leader # bidder THEN {leader} ELSE {}

\* C38: when place_bid writes its bid, the previous leader it remembered is
\* the leader stored at that moment, so the bid-overtaken notification goes
\* to the user who led immediately before the write, or to nobody when there
\* was no bid or that leader is the bidder.
C38_OvertakenIsPreviousLeader ==
    [][\A p \in Procs :
          ( /\ StepsFrom(p, "pb_add")
            /\ auctions'[calls[p].aid].bids # auctions[calls[p].aid].bids )
             => Overtaken(calls[p].previous_leader, calls[p].uid)
                   = Overtaken(current_leader(calls[p].aid).user_id, calls[p].uid)]_vars

\* C39: a step of the place_bid handler that leaves a user in the PLACE_BID
\* state leaves that user's entry in bid_contexts in place.
C39_RetryKeepsContext ==
    [][\A u \in UserIds :
          ( /\ conversations[u] = "PLACE_BID"
            /\ conversations'[u] = "PLACE_BID"
            /\ bid_contexts[u] # NoContext )
             => bid_contexts'[u] # NoContext]_vars

\* C40: in every state no registered user is both an admin and blocked.
C40_NoBlockedAdmin ==
    \A u \in UserIds : users[u].registered => ~(users[u].is_admin /\ users[u].is_blocked)

\* everybody is registered, a user who is not an admin is blocked, and a
\* block callback has just returned at its check of the target: the target
\* has a row, so it is the admin
C40_Witness ==
    /\ \A u \in UserIds : users[u].registered
    /\ \E u \in UserIds : users[u].is_admin
    /\ \E u \in UserIds : users[u].is_blocked
    /\ ret.op = "toggle_user_block" /\ ~ret.val
====
